---- MODULE Spec2Model ----
(***************************************************************************)
(* gitnotes: the note store (model.rs), the virtual file tree (model.rs),  *)
(* the command interpreter (command.rs) and the request planner (app.rs),  *)
(* over an abstract git repository (working tree, index, commit list).     *)
(***************************************************************************)
EXTENDS Integers, Sequences, FiniteSets, TLC

(***************************************************************************)
(* Bounds of the model and program constants.                              *)
(***************************************************************************)
NOTE_ID_SIZE == 6

\* How many distinct identifiers NoteId::new() can draw (of the 10^6).
MaxIds == 3

\* How many requests one run of the application serves.
MaxRequests == 3

\* The longest virtual path (in segments) a request may produce.
MaxDepth == 4

\* The most top-level blocks a markdown document holds.
MaxBlocks == 4

\* The longest path text given to a request to change the working directory.
MaxText == 5

(***************************************************************************)
(* Characters, strings, path segments and paths.  A string is a sequence   *)
(* of characters, a path is a sequence of segments (PathBuf components).   *)
(***************************************************************************)
Digits == <<"0", "1", "2", "3", "4", "5", "6", "7", "8", "9">>

\* The byte order of the characters used (OsString ordering in BTreeMap).
CharOrder == <<"/">> \o Digits \o <<"a", "b", "x", "y">>

CharRank(c) == CHOOSE i \in 1..Len(CharOrder) : CharOrder[i] = c

\* char::is_numeric
is_numeric(c) == \E i \in 1..Len(Digits) : Digits[i] = c

\* Lexicographic order on strings, as Ord for OsString.
RECURSIVE StrLess(_, _)
StrLess(s, t) ==
    IF t = <<>> THEN FALSE
    ELSE IF s = <<>> THEN TRUE
    ELSE IF Head(s) = Head(t) THEN StrLess(Tail(s), Tail(t))
    ELSE CharRank(Head(s)) < CharRank(Head(t))

\* Path::to_str: the segments joined by the separator.
RECURSIVE PathToStr(_)
PathToStr(p) ==
    IF p = <<>> THEN <<>>
    ELSE IF Len(p) = 1 THEN p[1]
    ELSE p[1] \o <<"/">> \o PathToStr(Tail(p))

\* Path::join for a relative right-hand side.
PathJoin(p, q) == p \o q

\* Path::file_name: the last segment, if any (a set of at most one segment).
file_name(p) == IF p = <<>> THEN {} ELSE {p[Len(p)]}

IsPrefix(p, q) == Len(p) <= Len(q) /\ SubSeq(q, 1, Len(p)) = p
IsProperPrefix(p, q) == Len(p) < Len(q) /\ SubSeq(q, 1, Len(p)) = p

\* The part of the path p below the directory A.
Rel(A, p) == SubSeq(p, Len(A) + 1, Len(p))

(***************************************************************************)
(* NoteId: an array of NOTE_ID_SIZE digit characters.                      *)
(***************************************************************************)
\* The identifiers NoteId::new() can return in this model: 000001, 000002, ...
MakeId(n) == [i \in 1..NOTE_ID_SIZE |-> IF i = NOTE_ID_SIZE THEN Digits[n + 1] ELSE "0"]

IdSpace == {MakeId(n) : n \in 1..MaxIds}

\* NoteId::from_vec: exactly NOTE_ID_SIZE characters, all numeric.
\* The result is a set: empty for None, {id} for Some(id).
NoteId_from_vec(chars) ==
    IF Len(chars) = NOTE_ID_SIZE
    THEN IF \A i \in 1..Len(chars) : is_numeric(chars[i])
         THEN {[i \in 1..NOTE_ID_SIZE |-> chars[i]]}
         ELSE {}
    ELSE {}

\* impl FromStr for NoteId
NoteId_from_str(str) == NoteId_from_vec(str)

\* impl Display for NoteId: the characters in order.
NoteId_to_string(id) == [i \in 1..NOTE_ID_SIZE |-> id[i]]

\* The file names of a note: <id>.md and <id>.metadata.
get_note_storage_path(id) == [id |-> id, ext |-> "md"]
get_note_metadata_path(id) == [id |-> id, ext |-> "metadata"]

(***************************************************************************)
(* Partial maps (files of a directory, hash maps).                         *)
(***************************************************************************)
EmptyMap == <<>>
MapPut(f, k, v) == [x \in DOMAIN f \cup {k} |-> IF x = k THEN v ELSE f[x]]
MapDel(f, k) == [x \in DOMAIN f \ {k} |-> f[x]]

RECURSIVE SeqOfSet(_)
SeqOfSet(S) == IF S = {} THEN <<>> ELSE LET x == CHOOSE y \in S : TRUE IN <<x>> \o SeqOfSet(S \ {x})

Perms(S) == {f \in [1..Cardinality(S) -> S] : \A i, j \in 1..Cardinality(S) : i # j => f[i] # f[j]}

(***************************************************************************)
(* NoteMetadata and NoteMetadataStorage (the Note Store).  A metadata file *)
(* holds the record; a directory is a partial map from identifiers to the  *)
(* files <id>.metadata and <id>.md.                                        *)
(***************************************************************************)
NoteMetadata_new(id, path, tags, t) ==
    [id |-> id, created |-> t, last_updated |-> t, path |-> path, tags |-> tags]

\* NoteMetadata::load_all feeding the closure of from_dir, over the directory
\* entries in the order read_dir yields them (ord): a later record replaces
\* an earlier one under the same key.
RECURSIVE load_all(_, _, _)
load_all(meta, ord, acc) ==
    IF ord = <<>> THEN acc
    ELSE LET f == Head(ord) IN
         IF f \in DOMAIN meta
         THEN load_all(meta, Tail(ord),
                       [id_to_notes |-> MapPut(acc.id_to_notes, meta[f].id, meta[f]),
                        path_to_id  |-> MapPut(acc.path_to_id, meta[f].path, meta[f].id)])
         ELSE load_all(meta, Tail(ord), acc)

NoStorage == [loaded |-> FALSE, id_to_notes |-> EmptyMap, path_to_id |-> EmptyMap]

from_dir(meta, ord) ==
    LET r == load_all(meta, ord, [id_to_notes |-> EmptyMap, path_to_id |-> EmptyMap])
    IN [loaded |-> TRUE, id_to_notes |-> r.id_to_notes, path_to_id |-> r.path_to_id]

\* NoteMetadataStorage::try_resolve_id
try_resolve_id(storage, path) ==
    LET parsed == NoteId_from_str(PathToStr(path)) IN
    IF parsed # {}
    THEN LET id == CHOOSE i \in parsed : TRUE IN
         IF id \in DOMAIN storage.id_to_notes THEN {storage.id_to_notes[id].id} ELSE {}
    ELSE {}

\* A faulty get_id that looks the path up before it tries the identifier.
get_id_path_first(storage, path) ==
    IF path \in DOMAIN storage.path_to_id
    THEN {storage.path_to_id[path]}
    ELSE try_resolve_id(storage, path)

\* A faulty get_id that never looks the token up as a path.
get_id_only(storage, path) == try_resolve_id(storage, path)

\* NoteMetadataStorage::get_id
get_id(storage, path) ==
    IF try_resolve_id(storage, path) # {}
    THEN try_resolve_id(storage, path)
    ELSE IF path \in DOMAIN storage.path_to_id THEN {storage.path_to_id[path]} ELSE {}

\* NoteMetadataStorage::get
get(storage, path) ==
    {storage.id_to_notes[id] : id \in get_id(storage, path) \cap DOMAIN storage.id_to_notes}

\* NoteMetadataStorage::get_by_id
get_by_id(storage, id) ==
    IF id \in DOMAIN storage.id_to_notes THEN {storage.id_to_notes[id]} ELSE {}

\* NoteMetadataStorage::contains_path
contains_path(storage, path) == path \in DOMAIN storage.path_to_id

\* NoteMetadataStorage::get_content over the directory md: the content of
\* <id>.md of the note the path resolves to, if it resolves and the file exists.
get_content(storage, md, path) ==
    {md[id] : id \in get_id(storage, path) \cap DOMAIN md}

\* NoteMetadataStorage::resolve_path with the virtual resolver at the root
\* working directory.
resolve_path(storage, path) ==
    IF try_resolve_id(storage, path) # {}
    THEN <<NoteId_to_string(CHOOSE i \in try_resolve_id(storage, path) : TRUE)>>
    ELSE path

\* The orders in which read_dir may yield the metadata files: every order
\* when two files claim one path (the later one then wins in path_to_id),
\* one representative order otherwise (the result does not depend on it).
DirOrders(meta) ==
    IF \E f, g \in DOMAIN meta : f # g /\ meta[f].path = meta[g].path
    THEN Perms(IdSpace)
    ELSE {SeqOfSet(IdSpace)}

(***************************************************************************)
(* NoteFileTree: a map from node paths (relative to the root, <<>>) to     *)
(* nodes.  A Note node holds the identifier of its note, a Tree node the   *)
(* rolled-up last_updated (a set: empty for None).                         *)
(***************************************************************************)
NoteNode(id) == [is_note |-> TRUE, id |-> id, last_updated |-> {}]
TreeNode(updated) == [is_note |-> FALSE, id |-> <<>>, last_updated |-> updated]

\* NoteFileTree::new
NoteFileTree_new == (<<>> :> TreeNode({}))

\* A faulty max that keeps the value it has.
MaxOf_kept(a, b) == a

\* Ord::max
MaxOf(a, b) == IF a >= b THEN a ELSE b

\* The inner loop of from_iter_with_config for one note, from part k on.
RECURSIVE insert_parts(_, _, _)
insert_parts(nodes, note, k) ==
    LET parts == note.path
        current == SubSeq(parts, 1, k - 1)
    IN
    IF k > Len(parts) THEN [ok |-> TRUE, nodes |-> nodes]
    ELSE IF nodes[current].is_note THEN [ok |-> FALSE, nodes |-> nodes]
    ELSE LET child == SubSeq(parts, 1, k)
             is_last == (k = Len(parts))
             n1 == IF child \in DOMAIN nodes THEN nodes
                   ELSE MapPut(nodes, child,
                               IF is_last THEN NoteNode(note.id)
                               ELSE TreeNode({note.last_updated}))
             lu == nodes[current].last_updated
             n2 == [n1 EXCEPT ![current].last_updated =
                       IF lu = {} THEN {note.last_updated}
                       ELSE {MaxOf(CHOOSE t \in lu : TRUE, note.last_updated)}]
         IN insert_parts(n2, note, k + 1)

\* NoteFileTree::from_iter over the notes in iteration order: {} for None.
RECURSIVE from_iter_loop(_, _)
from_iter_loop(nodes, notes) ==
    IF notes = <<>> THEN {nodes}
    ELSE LET r == insert_parts(nodes, Head(notes), 1) IN
         IF r.ok THEN from_iter_loop(r.nodes, Tail(notes)) ELSE {}

from_iter(notes) == from_iter_loop(NoteFileTree_new, notes)

\* NoteMetadataStorage::notes: the values of id_to_notes in the order the hash
\* map iterates (ord, an order of the identifiers).
RECURSIVE notes_in_order(_, _)
notes_in_order(storage, ord) ==
    IF ord = <<>> THEN <<>>
    ELSE (IF Head(ord) \in DOMAIN storage.id_to_notes
          THEN <<storage.id_to_notes[Head(ord)]>> ELSE <<>>)
         \o notes_in_order(storage, Tail(ord))

\* The iteration orders that can matter for the tree: every order when one
\* note's path is a prefix of (or equal to) another's, one order otherwise.
HashOrders(storage) ==
    IF \E f, g \in DOMAIN storage.id_to_notes :
          f # g /\ IsPrefix(storage.id_to_notes[f].path, storage.id_to_notes[g].path)
    THEN Perms(IdSpace)
    ELSE {SeqOfSet(IdSpace)}

\* NoteFileTree::children of the node at p: the segment names, {} when a leaf.
children(nodes, p) ==
    IF nodes[p].is_note THEN {}
    ELSE {q[Len(q)] : q \in {r \in DOMAIN nodes : Len(r) = Len(p) + 1 /\ IsPrefix(p, r)}}

\* NoteFileTree::find from the root: the node path found ({} for None).
RECURSIVE find_loop(_, _, _)
find_loop(nodes, path, k) ==
    IF k > Len(path) THEN {path}
    ELSE LET current == SubSeq(path, 1, k - 1) IN
         IF nodes[current].is_note THEN {}
         ELSE IF path[k] \in children(nodes, current)
              THEN find_loop(nodes, path, k + 1)
              ELSE {}

find(nodes, path) == IF path = <<>> THEN {<<>>} ELSE find_loop(nodes, path, 1)

is_tree(nodes, p) == ~nodes[p].is_note
is_leaf(nodes, p) == nodes[p].is_note

\* The keys of a BTreeMap in ascending order.
RECURSIVE SortedSegs(_)
SortedSegs(S) ==
    IF S = {} THEN <<>>
    ELSE LET m == CHOOSE x \in S : \A y \in S \ {x} : StrLess(x, y)
         IN <<m>> \o SortedSegs(S \ {m})

\* NoteFileTree::walk of the subtree at root: the calls of the visitor in
\* order, each with its level, parent path and name (relative to root).  The
\* visitor returns false (do not descend) exactly on the relative paths in stop.
RECURSIVE do_walk(_, _, _, _, _)
RECURSIVE walk_children(_, _, _, _, _, _)
walk_children(nodes, root, stop, level, parent, names) ==
    IF names = <<>> THEN <<>>
    ELSE LET name == Head(names)
             rel == parent \o <<name>>
             visit == <<[level |-> level, parent |-> parent, name |-> name]>>
         IN visit
            \o (IF is_tree(nodes, root \o rel) /\ rel \notin stop
                THEN do_walk(nodes, root, stop, level + 1, rel)
                ELSE <<>>)
            \o walk_children(nodes, root, stop, level, parent, Tail(names))

do_walk(nodes, root, stop, level, parent) ==
    walk_children(nodes, root, stop, level, parent,
                  SortedSegs(children(nodes, root \o parent)))

\* A faulty walk that descends whatever the visitor returns.
walk_through(nodes, root, stop) == do_walk(nodes, root, {}, 0, <<>>)

walk(nodes, root, stop) == do_walk(nodes, root, stop, 0, <<>>)

(***************************************************************************)
(* The git repository: a tree is the pair of directories (content files,   *)
(* metadata files); the working tree, the index and every commit hold one. *)
(***************************************************************************)
EmptyTree == [md |-> EmptyMap, meta |-> EmptyMap]

\* The files of a tree, by name.
TreeFiles(tree) ==
    {get_note_storage_path(i) : i \in DOMAIN tree.md}
    \cup {get_note_metadata_path(i) : i \in DOMAIN tree.meta}

HasFile(tree, file) == file \in TreeFiles(tree)

\* The tree with file copied from (or deleted as in) the tree from.
CopyFile(tree, from, file) ==
    IF file.ext = "md"
    THEN [tree EXCEPT !.md = IF file.id \in DOMAIN from.md
                             THEN MapPut(tree.md, file.id, from.md[file.id])
                             ELSE MapDel(tree.md, file.id)]
    ELSE [tree EXCEPT !.meta = IF file.id \in DOMAIN from.meta
                               THEN MapPut(tree.meta, file.id, from.meta[file.id])
                               ELSE MapDel(tree.meta, file.id)]

RemoveFile(tree, file) ==
    IF file.ext = "md"
    THEN [tree EXCEPT !.md = MapDel(tree.md, file.id)]
    ELSE [tree EXCEPT !.meta = MapDel(tree.meta, file.id)]

(***************************************************************************)
(* CommandInterpreter.  Its state, with the repository it works on, is a   *)
(* record: wt (working tree), index (the repository's index file), commits *)
(* (the history of HEAD, oldest first), storage (note_metadata_storage),   *)
(* index_open (self.index is Some), lines (commit_message_lines), changed  *)
(* (changed_files) and now (the clock Local::now() reads).                 *)
(*                                                                         *)
(* A primitive returns [s |-> the state it leaves, err |-> its result].    *)
(***************************************************************************)
Ok == [kind |-> "Ok", path |-> <<>>]
Err(kind, path) == [kind |-> kind, path |-> path]
Res(s, e) == [s |-> s, err |-> e]

\* The lines of a commit message.
Line(op, path, dest, id, tags) ==
    [op |-> op, path |-> path, dest |-> dest, id |-> id, tags |-> tags]

\* A faulty OrderedSet::insert that pushes the value whether present or not.
OrderedSet_insert_always(values, value) == Append(values, value)

\* OrderedSet::insert
OrderedSet_insert(values, value) ==
    IF \E i \in 1..Len(values) : values[i] = value THEN values ELSE Append(values, value)

(***************************************************************************)
(* Markdown (markdown.rs over comrak) and the snippet runners.  A document *)
(* is the sequence of the children of its root: code blocks (info,         *)
(* literal) and paragraphs.  The text of a document is a string; a         *)
(* paragraph ends in an exclamation mark, which format_commonmark escapes; *)
(* the fence of a code block is written ~~~.                               *)
(***************************************************************************)
CodeBlock(info, literal) == [node |-> "CodeBlock", info |-> info, literal |-> literal]
Paragraph(text) == [node |-> "Paragraph", info |-> "", literal |-> text]

\* The blocks of the documents: python snippets (p1, p2, and px, which exits
\* with an error), the outputs o1 and o2, a paragraph.
BlockKinds ==
    {CodeBlock("python", "p1"), CodeBlock("python", "p2"), CodeBlock("python", "px"),
     CodeBlock("output", "o1"), CodeBlock("output", "o2"), Paragraph("Hello")}

Documents == UNION {[1..n -> BlockKinds] : n \in 0..MaxBlocks}

\* The text of a block; escaped tells whether the exclamation mark is escaped.
block_to_string(block, escaped) ==
    IF block.node = "Paragraph"
    THEN block.literal \o (IF escaped THEN "\\!" ELSE "!") \o "\n"
    ELSE "~~~ " \o block.info \o "\n" \o block.literal \o "\n~~~\n"

RECURSIVE blocks_to_string(_, _)
blocks_to_string(blocks, escaped) ==
    IF blocks = <<>> THEN ""
    ELSE block_to_string(Head(blocks), escaped) \o blocks_to_string(Tail(blocks), escaped)

\* markdown::ast_to_string (comrak::format_commonmark)
ast_to_string(root) == blocks_to_string(root, TRUE)

\* The text of a document as a user writes it.
written(root) == blocks_to_string(root, FALSE)

\* markdown::parse: the document whose text, escaped or not, is content.
parse(content) ==
    CHOOSE root \in Documents : content \in {written(root), ast_to_string(root)}

\* The code blocks markdown::visit_code_blocks applies to (show_code, not
\* show_output).
is_code(block) == block.node = "CodeBlock" /\ block.info # "output"

\* SnippetRunnerManger::run: the output of the snippet, or its error.
snippet_run(name, source_code) ==
    IF name # "python" THEN [err |-> Err("Snippet", <<>>), output |-> ""]
    ELSE IF source_code = "p1" THEN [err |-> Ok, output |-> "o1"]
    ELSE IF source_code = "p2" THEN [err |-> Ok, output |-> "o2"]
    ELSE [err |-> Err("Snippet", <<>>), output |-> ""]

\* A faulty closure that always inserts an output block.
with_output_inserted(root, i, output) ==
    SubSeq(root, 1, i) \o <<CodeBlock("output", output)>> \o SubSeq(root, i + 1, Len(root))

\* The closure of run_snippet applied to the i-th child, whose snippet gave
\* output: the next sibling is rewritten when it is an output block, else an
\* output block is inserted after the child.
with_output(root, i, output) ==
    IF i < Len(root) /\ root[i + 1].node = "CodeBlock" /\ root[i + 1].info = "output"
    THEN [root EXCEPT ![i + 1].literal = output]
    ELSE SubSeq(root, 1, i) \o <<CodeBlock("output", output)>> \o SubSeq(root, i + 1, Len(root))

\* run_snippet from the i-th child on.  The iterator root.children() has
\* taken the next sibling of a child before the closure runs, so a block the
\* closure inserts is not visited.
RECURSIVE run_snippet_from(_, _)
run_snippet_from(root, i) ==
    IF i > Len(root) THEN [err |-> Ok, root |-> root]
    ELSE IF ~is_code(root[i]) THEN run_snippet_from(root, i + 1)
    ELSE IF snippet_run(root[i].info, root[i].literal).err # Ok
    THEN [err |-> snippet_run(root[i].info, root[i].literal).err, root |-> root]
    ELSE run_snippet_from(
             with_output(root, i, snippet_run(root[i].info, root[i].literal).output),
             i + 1 + Len(with_output(root, i, snippet_run(root[i].info, root[i].literal).output))
                   - Len(root))

\* run_snippet
run_snippet(content) == run_snippet_from(parse(content), 1)

\* The tags tags::automatic takes from the code blocks from the i-th child on:
\* "snippet" once, then every info not yet among the tags.
RECURSIVE code_tags(_, _, _)
code_tags(root, i, tags) ==
    IF i > Len(root) THEN tags
    ELSE IF is_code(root[i]) /\ root[i].info # ""
    THEN code_tags(root, i + 1,
                   OrderedSet_insert(OrderedSet_insert(tags, "snippet"), root[i].info))
    ELSE code_tags(root, i + 1, tags)

\* tags::automatic, the tag-extraction collaborator: the tags of the content.
\* The contents c1, c2 and c3 stand for whole documents, c2 for one with a
\* python snippet.
automatic(content) ==
    IF content = "c2" THEN <<"snippet", "python">>
    ELSE IF content \in {"c1", "c3"} THEN <<>>
    ELSE code_tags(parse(content), 1, <<>>)

\* CommandInterpreter::note_metadata_storage_mut: load the store if unloaded.
note_metadata_storage_mut(S, ord) ==
    IF S.storage.loaded THEN S ELSE [S EXCEPT !.storage = from_dir(S.wt.meta, ord)]

\* index.add_path(file); index.write(): stage the working-tree file.
index_add_path(S, file) ==
    [S EXCEPT !.index = CopyFile(S.index, S.wt, file), !.index_open = TRUE]

\* A faulty removal that leaves the file in the index.
index_remove_path_kept(S, file) == [S EXCEPT !.index_open = TRUE]

\* index.remove_path(file); index.write()
index_remove_path(S, file) ==
    [S EXCEPT !.index = RemoveFile(S.index, file), !.index_open = TRUE]

\* CommandInterpreter::get_git_head: the HEAD commit ({} when there is none).
get_git_head(S) == IF S.commits = <<>> THEN {} ELSE {S.commits[Len(S.commits)]}

\* A faulty has_git_diff that reports a difference between any two trees.
has_git_diff_always(head_tree, new_tree) == TRUE

\* CommandInterpreter::has_git_diff: some file differs between the trees.
has_git_diff(head_tree, new_tree) == head_tree # new_tree

\* CommandInterpreter::has_git_changes ({} when get_git_head fails).
has_git_changes(S) ==
    {has_git_diff(h.tree, S.index) : h \in get_git_head(S)}

\* self.commit_message_lines.insert(line)
insert_line(S, line) == [S EXCEPT !.lines = OrderedSet_insert(S.lines, line)]

\* self.changed_files.push(file)
push_changed(S, file) == [S EXCEPT !.changed = Append(S.changed, file)]

\* std::fs::write of a note's content file.
write_content(S, id, content) == [S EXCEPT !.wt.md = MapPut(S.wt.md, id, content)]

\* NoteMetadata::save of the record metadata.
save_metadata(S, id, metadata) == [S EXCEPT !.wt.meta = MapPut(S.wt.meta, id, metadata)]

\* std::fs::remove_file
remove_file(S, file) == [S EXCEPT !.wt = RemoveFile(S.wt, file)]

\* CommandInterpreter::check_if_note_exists, on the loaded store.
check_if_note_exists_loaded(S1, path) ==
    IF contains_path(S1.storage, path)
    THEN Res(S1, Err("NoteAlreadyExists", path))
    ELSE Res(S1, Ok)

\* CommandInterpreter::check_if_note_exists
check_if_note_exists(S, path, ord) ==
    check_if_note_exists_loaded(note_metadata_storage_mut(S, ord), path)

\* The metadata add_note creates: the tags given, else the automatic ones.
add_note_metadata(S, id, path, tags) ==
    NoteMetadata_new(id, path, IF tags = <<>> THEN automatic(S.wt.md[id]) ELSE tags, S.now)

\* CommandInterpreter::add_note
add_note(S, id, path, tags) ==
    Res(insert_line(
            index_add_path(
                index_add_path(save_metadata(S, id, add_note_metadata(S, id, path, tags)),
                               get_note_storage_path(id)),
                get_note_metadata_path(id)),
            Line("Added", path, <<>>, id, add_note_metadata(S, id, path, tags).tags)),
        Ok)

\* Command::AddNoteWithContent after its check (chk).
AddNoteWithContent_checked(chk, cmd) ==
    IF chk.err # Ok THEN chk
    ELSE add_note(write_content(chk.s, cmd.id, cmd.content), cmd.id, cmd.path, cmd.tags)

\* Command::AddNoteWithContent; cmd.id is the identifier NoteId::new() draws.
AddNoteWithContent(S, cmd, ord) ==
    AddNoteWithContent_checked(check_if_note_exists(S, cmd.path, ord), cmd)

\* The file the editor is launched on: created empty unless it exists.
create_if_missing(S, id) ==
    IF id \in DOMAIN S.wt.md THEN S ELSE write_content(S, id, "")

\* Command::AddNote after its check (chk).
AddNote_checked(chk, cmd) ==
    IF chk.err # Ok THEN chk
    ELSE add_note(write_content(create_if_missing(chk.s, cmd.id), cmd.id, cmd.content),
                  cmd.id, cmd.path, cmd.tags)

\* Command::AddNote; cmd.content is what the launched editor leaves in the file.
AddNote(S, cmd, ord) ==
    AddNote_checked(check_if_note_exists(S, cmd.path, ord), cmd)

\* CommandInterpreter::remove_note once the identifier and the real path of
\* the note are known: the files, the index, the message line, the record.
remove_note_files(S1, path, id, real_path) ==
    IF id \notin DOMAIN S1.wt.md THEN Res(S1, Err("FailedToRemoveNote", path))
    ELSE IF id \notin DOMAIN S1.wt.meta
    THEN Res(remove_file(S1, get_note_storage_path(id)), Err("FailedToRemoveNote", path))
    ELSE Res(push_changed(
                 insert_line(
                     index_remove_path(
                         index_remove_path(
                             remove_file(remove_file(S1, get_note_storage_path(id)),
                                         get_note_metadata_path(id)),
                             get_note_storage_path(id)),
                         get_note_metadata_path(id)),
                     Line("Deleted", real_path, <<>>, <<>>, <<>>)),
                 get_note_metadata_path(id)),
             Ok)

\* CommandInterpreter::remove_note once get_note_id has answered (ids).
remove_note_id(S1, path, ids) ==
    IF ids = {} THEN Res(S1, Err("NoteNotFound", path))
    ELSE IF UNION {get_by_id(S1.storage, i) : i \in ids} = {}
    THEN Res(S1, Err("NoteNotFound", <<NoteId_to_string(CHOOSE i \in ids : TRUE)>>))
    ELSE remove_note_files(S1, path, CHOOSE i \in ids : TRUE,
                           (CHOOSE n \in UNION {get_by_id(S1.storage, i) : i \in ids} : TRUE).path)

\* CommandInterpreter::remove_note on the loaded store.
remove_note_loaded(S1, path) == remove_note_id(S1, path, get_id(S1.storage, path))

\* CommandInterpreter::remove_note
remove_note(S, path, ord) == remove_note_loaded(note_metadata_storage_mut(S, ord), path)

\* The record of id in the cached store with its path set to destination.
with_path(S, id, destination) ==
    [S EXCEPT !.storage.id_to_notes[id].path = destination]

\* A faulty with_last_updated that stamps created as well.
with_last_updated_and_created(S, id) ==
    [S EXCEPT !.storage.id_to_notes[id].last_updated = S.now,
              !.storage.id_to_notes[id].created = S.now]

\* The record of id in the cached store with last_updated set to the clock.
with_last_updated(S, id) ==
    [S EXCEPT !.storage.id_to_notes[id].last_updated = S.now]

\* The tail of change_note_metadata and of try_change_last_updated: save the
\* cached record, stage the metadata file, record it as changed.
save_and_stage(S, id) ==
    push_changed(index_add_path(save_metadata(S, id, S.storage.id_to_notes[id]),
                                get_note_metadata_path(id)),
                 get_note_metadata_path(id))

\* CommandInterpreter::change_note_metadata with the closure of MoveNote:
\* set the path of the cached record, save it, stage it, record the file.
change_note_metadata_path(S, id, destination) ==
    IF id \notin DOMAIN S.storage.id_to_notes
    THEN Res(S, Err("FailedToUpdateMetadata", <<NoteId_to_string(id)>>))
    ELSE Res(save_and_stage(with_path(S, id, destination), id), Ok)

\* CommandInterpreter::try_change_last_updated once self.index() has opened
\* the index; changed is its boolean result.
try_change_last_updated_open(S0, id) ==
    IF has_git_changes(S0) = {} THEN [s |-> S0, err |-> Err("Git", <<>>), changed |-> FALSE]
    ELSE IF has_git_changes(S0) = {TRUE}
    THEN IF id \notin DOMAIN S0.storage.id_to_notes
         THEN [s |-> S0, err |-> Err("NoteNotFound", <<NoteId_to_string(id)>>), changed |-> FALSE]
         ELSE [s |-> save_and_stage(with_last_updated(S0, id), id), err |-> Ok, changed |-> TRUE]
    ELSE [s |-> S0, err |-> Ok, changed |-> FALSE]

\* CommandInterpreter::try_change_last_updated
try_change_last_updated(S, id) ==
    try_change_last_updated_open([S EXCEPT !.index_open = TRUE], id)

\* Command::MoveNote, the end: the last_updated change (lu), the message line.
MoveNote_line(lu, cmd, real_source_path) ==
    IF lu.err # Ok THEN Res(lu.s, lu.err)
    ELSE Res(insert_line(lu.s, Line("Moved", real_source_path, cmd.destination, <<>>, <<>>)), Ok)

\* Command::MoveNote after change_note_metadata (ch).
MoveNote_changed(ch, cmd, id, real_source_path) ==
    IF ch.err # Ok THEN ch
    ELSE MoveNote_line(try_change_last_updated(ch.s, id), cmd, real_source_path)

\* Command::MoveNote after the destination was dealt with (rm).
MoveNote_freed(rm, cmd, id, real_source_path) ==
    IF rm.err # Ok THEN rm
    ELSE MoveNote_changed(change_note_metadata_path(rm.s, id, cmd.destination),
                          cmd, id, real_source_path)

\* Command::MoveNote, the destination: free, or removed under force, or the
\* error NoteExistsAtDestination.
MoveNote_destination(S1, cmd, ord) ==
    IF get_id(S1.storage, cmd.destination) # {}
    THEN IF cmd.force
         THEN remove_note(S1, cmd.destination, ord)
         ELSE Res(S1, Err("NoteExistsAtDestination", cmd.destination))
    ELSE Res(S1, Ok)

\* Command::MoveNote once get_note_id has answered for the source (ids).
MoveNote_id(S1, cmd, ids, ord) ==
    IF ids = {} THEN Res(S1, Err("NoteNotFound", cmd.source))
    ELSE IF UNION {get_by_id(S1.storage, i) : i \in ids} = {}
    THEN Res(S1, Err("NoteNotFound", <<NoteId_to_string(CHOOSE i \in ids : TRUE)>>))
    ELSE MoveNote_freed(MoveNote_destination(S1, cmd, ord), cmd, CHOOSE i \in ids : TRUE,
                        (CHOOSE n \in UNION {get_by_id(S1.storage, i) : i \in ids} : TRUE).path)

\* Command::MoveNote on the loaded store.
MoveNote_loaded(S1, cmd, ord) == MoveNote_id(S1, cmd, get_id(S1.storage, cmd.source), ord)

\* Command::MoveNote
MoveNote(S, cmd, ord) == MoveNote_loaded(note_metadata_storage_mut(S, ord), cmd, ord)

\* Command::RemoveNote
RemoveNote(S, cmd, ord) == remove_note(S, cmd.path, ord)

\* CommandInterpreter::edited_file: stage the content file, record it.
edited_file(S, file) == push_changed(index_add_path(S, file), file)

\* The closure of change_note_tags applied to the tags of a record.
tags_after(tags, clear_tags, add_tags) == (IF clear_tags THEN <<>> ELSE tags) \o add_tags

\* The record of id in the cached store with its tags changed.
with_tags(S, id, clear_tags, add_tags) ==
    [S EXCEPT !.storage.id_to_notes[id].tags = tags_after(@, clear_tags, add_tags)]

\* A faulty change_note_tags that changes nothing.
change_note_tags_dropped(S, id, clear_tags, add_tags) == Res(S, Ok)

\* CommandInterpreter::change_note_tags: the record is saved and staged only
\* when the closure reports a change (clear_tags set or add_tags not empty).
change_note_tags(S, id, clear_tags, add_tags) ==
    IF id \notin DOMAIN S.storage.id_to_notes
    THEN Res(S, Err("FailedToUpdateMetadata", <<NoteId_to_string(id)>>))
    ELSE IF clear_tags \/ add_tags # <<>>
    THEN Res(save_and_stage(with_tags(S, id, clear_tags, add_tags), id), Ok)
    ELSE Res(S, Ok)

\* Repository::revparse_single for the revisions HEAD and HEAD~1: the position
\* of the commit in the history ({} when the revision names nothing).
revparse_single(S, spec) ==
    IF spec = "HEAD" /\ Len(S.commits) >= 1 THEN {Len(S.commits)}
    ELSE IF spec = "HEAD~1" /\ Len(S.commits) >= 2 THEN {Len(S.commits) - 1}
    ELSE {}

\* GitContentFetcher::fetch: the content file, in the tree of the commit spec
\* names, of the note the path resolves to in the cached store ({} for an
\* error or None).
fetch(S, path, spec) ==
    UNION {{S.commits[k].tree.md[i] : i \in get_id(S.storage, path) \cap DOMAIN S.commits[k].tree.md} :
              k \in revparse_single(S, spec)}

\* Command::EditNoteContent, the history: the content file is overwritten
\* with the content fetched from the revision.
restore_history(S1, cmd, id, real_path) ==
    IF cmd.history = {} THEN Res(S1, Ok)
    ELSE IF fetch(S1, real_path, CHOOSE h \in cmd.history : TRUE) = {}
    THEN Res(S1, Err("FailedToEditNote", cmd.path))
    ELSE Res(write_content(S1, id, CHOOSE c \in fetch(S1, real_path, CHOOSE h \in cmd.history : TRUE) : TRUE),
             Ok)

\* The launched editor: it leaves the file as it is (editor = {}) or writes
\* a content.
launch_editor(S, id, editor) ==
    IF editor = {} THEN S ELSE write_content(S, id, CHOOSE c \in editor : TRUE)

\* Command::EditNoteContent, the end: the message line when last_updated
\* changed (lu).
EditNoteContent_updated(lu, real_path) ==
    IF lu.err # Ok THEN Res(lu.s, lu.err)
    ELSE IF lu.changed
    THEN Res(insert_line(lu.s, Line("Updated", real_path, <<>>, <<>>, <<>>)), Ok)
    ELSE Res(lu.s, Ok)

\* Command::EditNoteContent after change_note_tags (ct).
EditNoteContent_tags(ct, id, real_path) ==
    IF ct.err # Ok THEN ct
    ELSE EditNoteContent_updated(try_change_last_updated(ct.s, id), real_path)

\* Command::EditNoteContent after the editor has returned: index.add_path
\* fails when the content file does not exist.
EditNoteContent_edited(S2, cmd, id, real_path) ==
    IF id \notin DOMAIN S2.wt.md THEN Res(S2, Err("Git", <<>>))
    ELSE EditNoteContent_tags(
             change_note_tags(edited_file(S2, get_note_storage_path(id)), id,
                              cmd.clear_tags, cmd.add_tags),
             id, real_path)

\* Command::EditNoteContent after the history was dealt with (rh).
EditNoteContent_restored(rh, cmd, id, real_path) ==
    IF rh.err # Ok THEN rh
    ELSE EditNoteContent_edited(launch_editor(rh.s, id, cmd.editor), cmd, id, real_path)

\* Command::EditNoteContent once get_note_id has answered (id).
EditNoteContent_found(S1, cmd, id) ==
    IF id \notin DOMAIN S1.storage.id_to_notes
    THEN Res(S1, Err("NoteNotFound", <<NoteId_to_string(id)>>))
    ELSE EditNoteContent_restored(
             restore_history(S1, cmd, id, S1.storage.id_to_notes[id].path),
             cmd, id, S1.storage.id_to_notes[id].path)

\* Command::EditNoteContent on the loaded store.
EditNoteContent_loaded(S1, cmd) ==
    IF get_id(S1.storage, cmd.path) = {} THEN Res(S1, Err("NoteNotFound", cmd.path))
    ELSE EditNoteContent_found(S1, cmd, CHOOSE i \in get_id(S1.storage, cmd.path) : TRUE)

\* Command::EditNoteContent; cmd.editor is what the launched editor does.
EditNoteContent(S, cmd, ord) == EditNoteContent_loaded(note_metadata_storage_mut(S, ord), cmd)

\* Command::EditNoteSetContent, the end: the message line, whatever
\* try_change_last_updated answered (lu).
EditNoteSetContent_updated(lu, id) ==
    IF lu.err # Ok THEN Res(lu.s, lu.err)
    ELSE IF id \notin DOMAIN lu.s.storage.id_to_notes
    THEN Res(lu.s, Err("NoteNotFound", <<NoteId_to_string(id)>>))
    ELSE Res(insert_line(lu.s, Line("Updated", lu.s.storage.id_to_notes[id].path, <<>>, <<>>, <<>>)),
             Ok)

\* Command::EditNoteSetContent after change_note_tags (ct).
EditNoteSetContent_tags(ct, id) ==
    IF ct.err # Ok THEN ct
    ELSE EditNoteSetContent_updated(try_change_last_updated(ct.s, id), id)

\* Command::EditNoteSetContent once get_note_id has answered (id).
EditNoteSetContent_found(S1, cmd, id) ==
    EditNoteSetContent_tags(
        change_note_tags(edited_file(write_content(S1, id, cmd.content),
                                     get_note_storage_path(id)),
                         id, cmd.clear_tags, cmd.add_tags),
        id)

\* Command::EditNoteSetContent on the loaded store.
EditNoteSetContent_loaded(S1, cmd) ==
    IF get_id(S1.storage, cmd.path) = {} THEN Res(S1, Err("NoteNotFound", cmd.path))
    ELSE EditNoteSetContent_found(S1, cmd, CHOOSE i \in get_id(S1.storage, cmd.path) : TRUE)

\* Command::EditNoteSetContent
EditNoteSetContent(S, cmd, ord) ==
    EditNoteSetContent_loaded(note_metadata_storage_mut(S, ord), cmd)

\* Command::RunSnippet, the end: the message line, whatever
\* try_change_last_updated answered (lu).
RunSnippet_updated(lu, id) ==
    IF lu.err # Ok THEN Res(lu.s, lu.err)
    ELSE IF id \notin DOMAIN lu.s.storage.id_to_notes
    THEN Res(lu.s, Err("NoteNotFound", <<NoteId_to_string(id)>>))
    ELSE Res(insert_line(lu.s, Line("Saved", lu.s.storage.id_to_notes[id].path, <<>>, <<>>, <<>>)),
             Ok)

\* Command::RunSnippet once the snippets have run (ran): with save_output the
\* document is written back and staged; the file is not recorded as changed.
RunSnippet_ran(S1, cmd, id, ran) ==
    IF ran.err # Ok THEN Res(S1, ran.err)
    ELSE IF ~cmd.save_output THEN Res(S1, Ok)
    ELSE RunSnippet_updated(
             try_change_last_updated(
                 index_add_path(write_content(S1, id, ast_to_string(ran.root)),
                                get_note_storage_path(id)),
                 id),
             id)

\* Command::RunSnippet once get_note_id has answered (id): read_to_string
\* fails when the content file is missing.
RunSnippet_found(S1, cmd, id) ==
    IF id \notin DOMAIN S1.wt.md THEN Res(S1, Err("IO", <<>>))
    ELSE RunSnippet_ran(S1, cmd, id, run_snippet(S1.wt.md[id]))

\* Command::RunSnippet on the loaded store.
RunSnippet_loaded(S1, cmd) ==
    IF get_id(S1.storage, cmd.path) = {} THEN Res(S1, Err("NoteNotFound", cmd.path))
    ELSE RunSnippet_found(S1, cmd, CHOOSE i \in get_id(S1.storage, cmd.path) : TRUE)

\* Command::RunSnippet
RunSnippet(S, cmd, ord) == RunSnippet_loaded(note_metadata_storage_mut(S, ord), cmd)

\* The file of a tree ({} when the tree has no such file).
FileOf(tree, file) ==
    IF file.ext = "md"
    THEN (IF file.id \in DOMAIN tree.md THEN {tree.md[file.id]} ELSE {})
    ELSE (IF file.id \in DOMAIN tree.meta THEN {tree.meta[file.id]} ELSE {})

\* The tree with every file of files copied from (or deleted as in) from.
RECURSIVE CopyFiles(_, _, _)
CopyFiles(tree, from, files) ==
    IF files = {} THEN tree
    ELSE CopyFiles(CopyFile(tree, from, CHOOSE f \in files : TRUE), from,
                   files \ {CHOOSE f \in files : TRUE})

\* The tree of the parent of the k-th commit (the empty tree for the root).
parent_tree(S, k) == IF k = 1 THEN EmptyTree ELSE S.commits[k - 1].tree

\* The files the k-th commit changed.
commit_changes(S, k) ==
    {f \in TreeFiles(S.commits[k].tree) \cup TreeFiles(parent_tree(S, k)) :
        FileOf(S.commits[k].tree, f) # FileOf(parent_tree(S, k), f)}

\* A faulty revert that leaves the working tree and the index alone.
revert_nothing(S, k) == Res(S, Ok)

\* Repository::revert of the commit HEAD points to (k = Len(S.commits)): the
\* files the commit changed go back, in the index and the working tree, to
\* what its parent has; the revert is refused when one of them has staged or
\* unstaged changes.
revert(S, k) ==
    IF \E f \in commit_changes(S, k) :
           \/ FileOf(S.index, f) # FileOf(S.commits[Len(S.commits)].tree, f)
           \/ FileOf(S.wt, f) # FileOf(S.index, f)
    THEN Res(S, Err("FailedToUndo", <<>>))
    ELSE Res([S EXCEPT !.wt = CopyFiles(S.wt, parent_tree(S, k), commit_changes(S, k)),
                       !.index = CopyFiles(S.index, parent_tree(S, k), commit_changes(S, k))],
             Ok)

\* Command::UndoCommit after the revert (rv): the message line with the
\* short id of the undone commit, here its position in the history.
UndoCommit_reverted(rv, k) ==
    IF rv.err # Ok THEN rv
    ELSE Res(insert_line(rv.s, Line("Undo", <<>>, <<>>, MakeId(k), <<>>)), Ok)

\* Command::UndoCommit: a revision that names nothing is a git error, one
\* that names an object other than a commit (the tree of HEAD) is
\* CommitNotFound.
UndoCommit(S, cmd) ==
    IF cmd.commit = "HEAD^{tree}"
    THEN (IF S.commits = <<>> THEN Res(S, Err("Git", <<>>))
          ELSE Res(S, Err("CommitNotFound", <<cmd.commit>>)))
    ELSE IF revparse_single(S, cmd.commit) = {} THEN Res(S, Err("Git", <<>>))
    ELSE UndoCommit_reverted(revert(S, CHOOSE k \in revparse_single(S, cmd.commit) : TRUE),
                             CHOOSE k \in revparse_single(S, cmd.commit) : TRUE)

\* A faulty decision of Command::Commit: a commit is created every time.
commit_create_always(S) == TRUE

\* The decision of Command::Commit: a commit is created when there is no HEAD
\* or when the tree of the index differs from the tree of HEAD.
commit_create(S) ==
    IF get_git_head(S) = {} THEN TRUE
    ELSE has_git_diff((CHOOSE h \in get_git_head(S) : TRUE).tree, S.index)

\* A faulty Command::Commit that keeps the index, the cached store and
\* changed_files after it has created the commit.
Commit_keeping(S) ==
    IF commit_create(S)
    THEN Res([S EXCEPT !.commits = Append(S.commits, [tree |-> S.index, message |-> S.lines]),
                       !.lines = <<>>,
                       !.index_open = TRUE],
             Ok)
    ELSE Res([S EXCEPT !.index_open = TRUE], Ok)

\* Command::Commit
Commit(S) ==
    IF commit_create(S)
    THEN Res([S EXCEPT !.commits = Append(S.commits, [tree |-> S.index, message |-> S.lines]),
                       !.lines = <<>>,
                       !.index_open = FALSE,
                       !.storage = NoStorage,
                       !.changed = <<>>],
             Ok)
    ELSE Res([S EXCEPT !.index_open = TRUE], Ok)

\* Local::now(): the clock advances between primitives.
tick(S) == [S EXCEPT !.now = S.now + 1]

\* One primitive of CommandInterpreter::execute.
ExecCommand(S, cmd, ord) ==
    CASE cmd.type = "AddNote" -> AddNote(tick(S), cmd, ord)
      [] cmd.type = "AddNoteWithContent" -> AddNoteWithContent(tick(S), cmd, ord)
      [] cmd.type = "MoveNote" -> MoveNote(tick(S), cmd, ord)
      [] cmd.type = "RemoveNote" -> RemoveNote(tick(S), cmd, ord)
      [] cmd.type = "EditNoteContent" -> EditNoteContent(tick(S), cmd, ord)
      [] cmd.type = "EditNoteSetContent" -> EditNoteSetContent(tick(S), cmd, ord)
      [] cmd.type = "UndoCommit" -> UndoCommit(tick(S), cmd)
      [] cmd.type = "RunSnippet" -> RunSnippet(tick(S), cmd, ord)
      [] cmd.type = "Commit" -> Commit(tick(S))

\* CommandInterpreter::execute: the primitives in order, stopping at the first
\* error, which is returned.
RECURSIVE execute(_, _, _)
RECURSIVE execute_rest(_, _, _)
execute(S, commands, ord) ==
    IF commands = <<>> THEN Res(S, Ok)
    ELSE execute_rest(ExecCommand(S, Head(commands), ord), Tail(commands), ord)

\* A faulty ? that goes on with the next primitive after an error.
execute_on(r, commands, ord) == execute(r.s, commands, ord)

\* The ? of execute: r is the result of the primitive before commands.
execute_rest(r, commands, ord) ==
    IF r.err # Ok THEN r ELSE execute(r.s, commands, ord)

\* CommandInterpreter::new_commit
new_commit(S) == [S EXCEPT !.index_open = FALSE, !.lines = <<>>]

\* CommandInterpreter::reset: a hard reset to HEAD whose checkout is limited
\* to the recorded paths (to nothing less than every path when none is
\* recorded).  The index becomes the tree of HEAD; a working-tree file among
\* the paths is restored when HEAD has it, deleted when only the index tracks
\* it, and kept when it is untracked.
reset(S) ==
    IF get_git_head(S) = {} THEN Res(S, Err("Git", <<>>))
    ELSE
    LET head == (CHOOSE h \in get_git_head(S) : TRUE).tree
        recorded == {S.changed[i] : i \in 1..Len(S.changed)}
        all == TreeFiles(S.wt) \cup TreeFiles(head) \cup TreeFiles(S.index)
        paths == IF recorded = {} THEN all ELSE recorded
        restored == {f \in paths : HasFile(head, f)}
        deleted == {f \in paths : ~HasFile(head, f) /\ HasFile(S.index, f)}
        wt1 == [md |-> [i \in (DOMAIN S.wt.md \cup {f.id : f \in {g \in restored : g.ext = "md"}})
                              \ {f.id : f \in {g \in deleted : g.ext = "md"}} |->
                          IF get_note_storage_path(i) \in restored THEN head.md[i] ELSE S.wt.md[i]],
                meta |-> [i \in (DOMAIN S.wt.meta \cup {f.id : f \in {g \in restored : g.ext = "metadata"}})
                              \ {f.id : f \in {g \in deleted : g.ext = "metadata"}} |->
                          IF get_note_metadata_path(i) \in restored THEN head.meta[i] ELSE S.wt.meta[i]]]
    IN Res([S EXCEPT !.wt = wt1, !.index = head, !.changed = <<>>, !.lines = <<>>], Ok)

(***************************************************************************)
(* App: the interpreter state ci, the App's own cached store app_storage   *)
(* and the auto_commit flag.  A request returns [a |-> App, err |-> ...,   *)
(* cmds |-> the batch it planned].                                         *)
(***************************************************************************)
\* App::note_metadata_storage: load the App's store if unloaded.
App_note_metadata_storage(A, ord) ==
    IF A.app_storage.loaded THEN A
    ELSE [A EXCEPT !.app_storage = from_dir(A.ci.wt.meta, ord)]

\* App::clear_cache
clear_cache(A) == [A EXCEPT !.app_storage = NoStorage]

\* App::get_path: the path resolved against the (loaded) store of the App.
get_path(A, path) == resolve_path(A.app_storage, path)

\* App::working_dir
App_working_dir(A) == get_path(A, <<>>)

CommitCmd == [type |-> "Commit"]

\* App::create_commands
create_commands(A, commands) ==
    IF A.auto_commit THEN Append(commands, CommitCmd) ELSE commands

\* App::execute_commands once the interpreter has answered (r): the cache is
\* cleared only when the batch succeeded.
execute_commands_result(A, r) ==
    IF r.err # Ok
    THEN [a |-> [A EXCEPT !.ci = r.s], err |-> r.err]
    ELSE [a |-> clear_cache([A EXCEPT !.ci = r.s]), err |-> Ok]

\* App::execute_commands
execute_commands(A, commands, ord) ==
    execute_commands_result(A, execute(A.ci, commands, ord))

\* App::create_and_execute_commands
create_and_execute_commands(A, commands, ord) ==
    execute_commands(A, create_commands(A, commands), ord)

MoveCmd(source, destination, force) ==
    [type |-> "MoveNote", source |-> source, destination |-> destination, force |-> force]

RemoveCmd(path) == [type |-> "RemoveNote", path |-> path]

\* The tree the planner builds from the App's store, the notes iterated in
\* the order ordh ({} when from_iter returns None).
planner_tree(A, ordh) == from_iter(notes_in_order(A.app_storage, ordh))

\* The walk of create_move_commands over the subtree at source: one MoveNote
\* per visited leaf.
RECURSIVE move_walk(_, _, _, _, _)
move_walk(nodes, visits, source, destination, force) ==
    IF visits = <<>> THEN <<>>
    ELSE LET v == Head(visits)
             path == PathJoin(v.parent, <<v.name>>)
         IN (IF is_leaf(nodes, PathJoin(source, path))
             THEN <<MoveCmd(PathJoin(source, path), PathJoin(destination, path), force)>>
             ELSE <<>>)
            \o move_walk(nodes, Tail(visits), source, destination, force)

\* A faulty planner that applies the directory-target detection to a source
\* that is a directory: the leaves go to destination/name(source)/rel when the
\* destination is a directory.
create_move_commands_nesting(tree, source, destination, force) ==
    IF UNION {find(nodes, source) : nodes \in tree} # {}
       /\ (\A nodes \in tree : is_tree(nodes, source))
    THEN IF UNION {find(nodes, destination) : nodes \in tree} # {}
            /\ file_name(source) # {}
            /\ (\A nodes \in tree : is_tree(nodes, destination))
         THEN move_walk(CHOOSE n \in tree : TRUE,
                        walk(CHOOSE n \in tree : TRUE, source, {}), source,
                        PathJoin(destination, <<CHOOSE f \in file_name(source) : TRUE>>), force)
         ELSE move_walk(CHOOSE n \in tree : TRUE,
                        walk(CHOOSE n \in tree : TRUE, source, {}), source, destination, force)
    ELSE <<MoveCmd(source, destination, force)>>

\* The closure inner of App::create_move_commands.
create_move_commands_inner(tree, source, destination, force) ==
    LET source_file_tree == UNION {find(nodes, source) : nodes \in tree}
        destination_file_tree == UNION {find(nodes, destination) : nodes \in tree}
    IN
    IF source_file_tree # {} /\ (\A nodes \in tree : is_tree(nodes, source))
    THEN LET nodes == CHOOSE n \in tree : TRUE
         IN move_walk(nodes, walk(nodes, source, {}), source, destination, force)
    ELSE IF destination_file_tree # {} /\ file_name(source) # {}
            /\ (\A nodes \in tree : is_tree(nodes, destination))
         THEN <<MoveCmd(source,
                        PathJoin(destination, <<CHOOSE f \in file_name(source) : TRUE>>),
                        force)>>
         ELSE <<MoveCmd(source, destination, force)>>

\* str::contains("*") on Path::to_str
contains_star(path) == \E i \in 1..Len(PathToStr(path)) : PathToStr(path)[i] = "*"

\* GlobMatcher::is_match for a pattern of literal characters and '*', built
\* with the default options: '*' matches any run of characters, the path
\* separator included.
RECURSIVE glob_is_match(_, _)
glob_is_match(pattern, str) ==
    IF pattern = <<>> THEN str = <<>>
    ELSE IF Head(pattern) = "*"
    THEN \/ glob_is_match(Tail(pattern), str)
         \/ str # <<>> /\ glob_is_match(pattern, Tail(str))
    ELSE /\ str # <<>>
         /\ Head(str) = Head(pattern)
         /\ glob_is_match(Tail(pattern), Tail(str))

\* The nodes below working_dir (relative paths) the pattern matches.
glob_matches(nodes, working_dir, pattern) ==
    {Rel(working_dir, q) :
        q \in {r \in DOMAIN nodes :
                  /\ IsProperPrefix(working_dir, r)
                  /\ glob_is_match(PathToStr(pattern), PathToStr(r))}}

\* The visits of the walk of create_glob_paths the pattern matches, as paths.
RECURSIVE glob_files(_, _, _)
glob_files(visits, working_dir, matches) ==
    IF visits = <<>> THEN <<>>
    ELSE (IF PathJoin(Head(visits).parent, <<Head(visits).name>>) \in matches
          THEN <<PathJoin(working_dir, PathJoin(Head(visits).parent, <<Head(visits).name>>))>>
          ELSE <<>>)
         \o glob_files(Tail(visits), working_dir, matches)

\* A faulty create_glob_paths whose walk descends into the matched entries.
create_glob_paths_walk_through(nodes, working_dir, matches) ==
    glob_files(walk(nodes, working_dir, {}), working_dir, matches)

\* App::create_glob_paths on the tree nodes: the matched entries in walk
\* order, a matched entry not being descended into.
create_glob_paths_walk(nodes, working_dir, matches) ==
    glob_files(walk(nodes, working_dir, matches), working_dir, matches)

\* App::create_glob_paths: {} for None, {the paths} for Some.
create_glob_paths(tree, working_dir, pattern) ==
    IF UNION {find(nodes, working_dir) : nodes \in tree} = {} THEN {}
    ELSE {create_glob_paths_walk(nodes, working_dir, glob_matches(nodes, working_dir, pattern)) :
             nodes \in tree}

\* The loop of create_move_commands over the glob paths: each is planned by
\* inner against the same destination.
RECURSIVE move_glob_paths(_, _, _, _)
move_glob_paths(tree, glob_paths, destination, force) ==
    IF glob_paths = <<>> THEN <<>>
    ELSE create_move_commands_inner(tree, Head(glob_paths), destination, force)
         \o move_glob_paths(tree, Tail(glob_paths), destination, force)

\* App::create_move_commands once create_glob_paths has answered (globbed).
create_move_commands_globbed(tree, globbed, source, destination, force) ==
    IF globbed = {}
    THEN create_move_commands_inner(tree, source, destination, force)
    ELSE move_glob_paths(tree, CHOOSE g \in globbed : TRUE, destination, force)

\* App::create_move_commands on the tree of the planner.
create_move_commands_tree(tree, working_dir, source, destination, force) ==
    IF contains_star(source)
    THEN create_move_commands_globbed(tree, create_glob_paths(tree, working_dir, source),
                                      source, destination, force)
    ELSE create_move_commands_inner(tree, source, destination, force)

\* App::create_move_commands
create_move_commands(A, working_dir, source, destination, force, ordh) ==
    create_move_commands_tree(planner_tree(A, ordh), working_dir, source, destination, force)

\* The walk of create_remove_commands: one RemoveNote per visited leaf.
RECURSIVE remove_walk(_, _, _)
remove_walk(nodes, visits, path) ==
    IF visits = <<>> THEN <<>>
    ELSE LET v == Head(visits)
             rel == PathJoin(v.parent, <<v.name>>)
         IN (IF is_leaf(nodes, PathJoin(path, rel))
             THEN <<RemoveCmd(PathJoin(path, rel))>>
             ELSE <<>>)
            \o remove_walk(nodes, Tail(visits), path)

\* A faulty planner whose walk does not descend into sub-directories: only
\* the notes directly in the directory are removed.
create_remove_commands_shallow(tree, path, recursive) ==
    IF UNION {find(nodes, path) : nodes \in tree} # {}
       /\ (\A nodes \in tree : is_tree(nodes, path)) /\ recursive
    THEN remove_walk(CHOOSE n \in tree : TRUE,
                     walk(CHOOSE n \in tree : TRUE, path,
                          {Rel(path, q) : q \in {r \in DOMAIN (CHOOSE n \in tree : TRUE) :
                                                    IsProperPrefix(path, r)}}),
                     path)
    ELSE <<RemoveCmd(path)>>

\* The closure inner of App::create_remove_commands.
create_remove_commands_inner(tree, path, recursive) ==
    LET source_file_tree == UNION {find(nodes, path) : nodes \in tree} IN
    IF source_file_tree # {} /\ (\A nodes \in tree : is_tree(nodes, path)) /\ recursive
    THEN LET nodes == CHOOSE n \in tree : TRUE
         IN remove_walk(nodes, walk(nodes, path, {}), path)
    ELSE <<RemoveCmd(path)>>

\* The loop of create_remove_commands over the glob paths.
RECURSIVE remove_glob_paths(_, _, _)
remove_glob_paths(tree, glob_paths, recursive) ==
    IF glob_paths = <<>> THEN <<>>
    ELSE create_remove_commands_inner(tree, Head(glob_paths), recursive)
         \o remove_glob_paths(tree, Tail(glob_paths), recursive)

\* App::create_remove_commands once create_glob_paths has answered (globbed).
create_remove_commands_globbed(tree, globbed, path, recursive) ==
    IF globbed = {}
    THEN create_remove_commands_inner(tree, path, recursive)
    ELSE remove_glob_paths(tree, CHOOSE g \in globbed : TRUE, recursive)

\* App::create_remove_commands on the tree of the planner.
create_remove_commands_tree(tree, working_dir, path, recursive) ==
    IF contains_star(path)
    THEN create_remove_commands_globbed(tree, create_glob_paths(tree, working_dir, path),
                                        path, recursive)
    ELSE create_remove_commands_inner(tree, path, recursive)

\* App::create_remove_commands
create_remove_commands(A, working_dir, path, recursive, ordh) ==
    create_remove_commands_tree(planner_tree(A, ordh), working_dir, path, recursive)

\* The error handling of InputCommand::Move and InputCommand::Remove once
\* reset() has answered (rs): the error of the batch, or the error of reset.
reset_result(r, rs) ==
    IF rs.err # Ok THEN [a |-> r.a, err |-> rs.err]
    ELSE [a |-> [r.a EXCEPT !.ci = rs.s], err |-> r.err]

\* The error handling of InputCommand::Move and InputCommand::Remove: on a
\* failed batch, reset() and return the error.
reset_on_error(r) ==
    IF r.err = Ok THEN r ELSE reset_result(r, reset(r.a.ci))

\* What a request returns, with the batch it planned.
Outcome(r, cmds) == [a |-> r.a, err |-> r.err, cmds |-> cmds]

\* The primitive a request to add plans.
AddRequestCmd(A1, path, tags, content, id, editor) ==
    [type |-> IF editor THEN "AddNote" ELSE "AddNoteWithContent",
     path |-> get_path(A1, path), tags |-> tags, content |-> content, id |-> id]

\* InputCommand::Add on the loaded store of the App with the planned batch.
App_run_Add_planned(A1, cmds, ord) ==
    Outcome(create_and_execute_commands(A1, cmds, ord), create_commands(A1, cmds))

\* InputCommand::Add on the loaded store of the App.
App_run_Add_loaded(A1, path, tags, content, id, editor, ord) ==
    App_run_Add_planned(A1, <<AddRequestCmd(A1, path, tags, content, id, editor)>>, ord)

\* InputCommand::Add, from the editor or from stdin.
App_run_Add(A, path, tags, content, id, editor, ord) ==
    App_run_Add_loaded(App_note_metadata_storage(A, ord), path, tags, content, id, editor, ord)

\* InputCommand::Move and InputCommand::Remove with the planned batch.
App_run_planned(A1, cmds, ord) ==
    Outcome(reset_on_error(create_and_execute_commands(A1, cmds, ord)),
            create_commands(A1, cmds))

\* InputCommand::Move on the loaded store of the App.
App_run_Move_loaded(A1, source, destination, force, ord, ordh) ==
    App_run_planned(A1,
                    create_move_commands(A1, App_working_dir(A1), get_path(A1, source),
                                         get_path(A1, destination), force, ordh),
                    ord)

\* InputCommand::Move
App_run_Move(A, source, destination, force, ord, ordh) ==
    App_run_Move_loaded(App_note_metadata_storage(A, ord), source, destination, force, ord, ordh)

\* InputCommand::Remove on the loaded store of the App.
App_run_Remove_loaded(A1, path, recursive, ord, ordh) ==
    App_run_planned(A1,
                    create_remove_commands(A1, App_working_dir(A1), get_path(A1, path), recursive,
                                           ordh),
                    ord)

\* InputCommand::Remove
App_run_Remove(A, path, recursive, ord, ordh) ==
    App_run_Remove_loaded(App_note_metadata_storage(A, ord), path, recursive, ord, ordh)

\* InputCommand::Begin
App_run_Begin(A) ==
    [a |-> [A EXCEPT !.auto_commit = FALSE, !.ci = new_commit(A.ci)], err |-> Ok, cmds |-> <<>>]

\* InputCommand::Commit once the batch has run (r): auto_commit is set again
\* only when it succeeded.
App_run_Commit_result(r) ==
    IF r.err # Ok THEN Outcome(r, <<CommitCmd>>)
    ELSE [a |-> [r.a EXCEPT !.auto_commit = TRUE], err |-> Ok, cmds |-> <<CommitCmd>>]

\* InputCommand::Commit
App_run_Commit(A, ord) == App_run_Commit_result(execute_commands(A, <<CommitCmd>>, ord))

\* InputCommand::Edit and InputCommand::Undo with the planned batch: the
\* error is returned, nothing is reset.
App_run_executed(A1, cmds, ord) ==
    Outcome(create_and_execute_commands(A1, cmds, ord), create_commands(A1, cmds))

\* InputCommand::Edit on the loaded store of the App; stdin is {} on a
\* terminal (the editor is launched) and holds what is read otherwise.
App_run_Edit_loaded(A1, path, history, clear_tags, add_tags, stdin, editor, ord) ==
    IF stdin = {}
    THEN App_run_executed(A1,
             <<[type |-> "EditNoteContent", path |-> get_path(A1, path), history |-> history,
                clear_tags |-> clear_tags, add_tags |-> add_tags, editor |-> editor]>>,
             ord)
    ELSE IF history # {} THEN [a |-> A1, err |-> Err("Input", <<>>), cmds |-> <<>>]
    ELSE App_run_executed(A1,
             <<[type |-> "EditNoteSetContent", path |-> get_path(A1, path),
                clear_tags |-> clear_tags, add_tags |-> add_tags,
                content |-> CHOOSE c \in stdin : TRUE]>>,
             ord)

\* InputCommand::Edit
App_run_Edit(A, path, history, clear_tags, add_tags, stdin, editor, ord) ==
    App_run_Edit_loaded(App_note_metadata_storage(A, ord), path, history, clear_tags, add_tags,
                        stdin, editor, ord)

\* InputCommand::Undo
App_run_Undo(A, commit, ord) ==
    App_run_executed(A, <<[type |-> "UndoCommit", commit |-> commit]>>, ord)

\* The batch InputCommand::RunSnippet plans: a Commit follows only when the
\* output is saved and the App commits automatically.
RunSnippetCmds(A1, path, save_output) ==
    <<[type |-> "RunSnippet", path |-> get_path(A1, path), save_output |-> save_output]>>
    \o (IF save_output /\ A1.auto_commit THEN <<CommitCmd>> ELSE <<>>)

\* InputCommand::RunSnippet on the loaded store of the App.
App_run_RunSnippet_loaded(A1, path, save_output, ord) ==
    Outcome(execute_commands(A1, RunSnippetCmds(A1, path, save_output), ord),
            RunSnippetCmds(A1, path, save_output))

\* InputCommand::RunSnippet
App_run_RunSnippet(A, path, save_output, ord) ==
    App_run_RunSnippet_loaded(App_note_metadata_storage(A, ord), path, save_output, ord)

(***************************************************************************)
(* The working directory.  The path a request to change it gives is a     *)
(* text, a sequence of characters; a Path is the sequence of its           *)
(* components, as Path compares them.                                      *)
(***************************************************************************)
\* Path::is_absolute
is_absolute(text) == text # <<>> /\ Head(text) = "/"

\* The pieces of the text between separators, the empty ones left out.
RECURSIVE pieces(_, _)
pieces(text, piece) ==
    IF text = <<>> THEN (IF piece = <<>> THEN <<>> ELSE <<piece>>)
    ELSE IF Head(text) = "/"
         THEN (IF piece = <<>> THEN <<>> ELSE <<piece>>) \o pieces(Tail(text), <<>>)
         ELSE pieces(Tail(text), Append(piece, Head(text)))

\* The pieces of parts from the k-th on that are not ".".
RECURSIVE without_cur_dir(_, _)
without_cur_dir(parts, k) ==
    IF k > Len(parts) THEN <<>>
    ELSE (IF parts[k] = <<".">> THEN <<>> ELSE <<parts[k]>>) \o without_cur_dir(parts, k + 1)

\* Path::components without the root: "." is a component only at the start
\* of a relative path.
components(text) ==
    IF is_absolute(text) \/ pieces(text, <<>>) = <<>> THEN without_cur_dir(pieces(text, <<>>), 1)
    ELSE <<Head(pieces(text, <<>>))>> \o without_cur_dir(pieces(text, <<>>), 2)

\* Path::join of one component: "." after another component is none.
join(path, part) == IF part = <<".">> /\ path # <<>> THEN path ELSE Append(path, part)

\* Path::parent ({} for None)
parent(path) == IF path = <<>> THEN {} ELSE {SubSeq(path, 1, Len(path) - 1)}

\* A faulty step that appends ".." like any other component.
change_working_dir_step_appending(current, part) == join(current, part)

\* One iteration of the loop of change_working_dir.
change_working_dir_step(current, part) ==
    IF part = <<".", ".">>
    THEN (IF parent(current) # {} THEN CHOOSE q \in parent(current) : TRUE ELSE <<>>)
    ELSE join(current, part)

\* The loop of change_working_dir over the components of the path.
RECURSIVE change_working_dir_loop(_, _)
change_working_dir_loop(current, parts) ==
    IF parts = <<>> THEN current
    ELSE change_working_dir_loop(change_working_dir_step(current, Head(parts)), Tail(parts))

\* change_working_dir: strip_prefix("/") of an absolute path leaves its
\* components and the current directory is dropped.
change_working_dir(current, text) ==
    change_working_dir_loop(IF is_absolute(text) THEN <<>> ELSE current, components(text))

\* InputCommand::ChangeWorkingDirectory with the tree built (tree) and the
\* new directory computed: it is taken when find gives a directory.
App_run_ChangeWorkingDirectory_found(A1, tree, new_working_dir) ==
    IF tree = {} THEN [a |-> A1, err |-> Err("FailedToCreateNoteFileTree", <<>>), cmds |-> <<>>]
    ELSE IF \E nodes \in tree : \E p \in find(nodes, new_working_dir) : is_tree(nodes, p)
    THEN [a |-> [A1 EXCEPT !.working_dir = new_working_dir], err |-> Ok, cmds |-> <<>>]
    ELSE [a |-> A1, err |-> Err("ChangeDirectory", new_working_dir), cmds |-> <<>>]

\* InputCommand::ChangeWorkingDirectory
App_run_ChangeWorkingDirectory(A, text, ord, ordh) ==
    App_run_ChangeWorkingDirectory_found(
        App_note_metadata_storage(A, ord),
        from_iter(notes_in_order(App_note_metadata_storage(A, ord).app_storage, ordh)),
        change_working_dir(A.working_dir, text))

\* App::create_and_execute_commands called with a batch, as the tests do.
App_batch(A, commands, ord) ==
    Outcome(create_and_execute_commands(A, commands, ord), create_commands(A, commands))

(***************************************************************************)
(* The state machine: one App serving requests on one repository.          *)
(***************************************************************************)
VARIABLES
    wt,             \* the working tree: the notes directory on disk
    index,          \* the repository's index
    commits,        \* the commits of HEAD's history, oldest first
    storage,        \* CommandInterpreter.note_metadata_storage
    index_open,     \* CommandInterpreter.index is Some
    lines,          \* CommandInterpreter.commit_message_lines
    changed,        \* CommandInterpreter.changed_files
    now,            \* the clock
    app_storage,    \* App.note_metadata_storage
    auto_commit,    \* App.auto_commit
    working_dir,    \* App.working_dir (the empty path at the root)
    requests,       \* how many requests were served
    last            \* the last request: what was asked, planned and returned,
                    \* and the state it started from

vars == <<wt, index, commits, storage, index_open, lines, changed, now,
          app_storage, auto_commit, working_dir, requests, last>>

\* The App (with its interpreter and repository) as one record.
TheApp ==
    [ci |-> [wt |-> wt, index |-> index, commits |-> commits, storage |-> storage,
             index_open |-> index_open, lines |-> lines, changed |-> changed, now |-> now],
     app_storage |-> app_storage,
     auto_commit |-> auto_commit,
     working_dir |-> working_dir]

\* App::new on a freshly initialised repository.
NewApp ==
    [ci |-> [wt |-> EmptyTree, index |-> EmptyTree, commits |-> <<>>, storage |-> NoStorage,
             index_open |-> FALSE, lines |-> <<>>, changed |-> <<>>, now |-> 0],
     app_storage |-> NoStorage,
     auto_commit |-> TRUE,
     working_dir |-> <<>>]

NoArgs == [path |-> <<>>, dest |-> <<>>, force |-> FALSE, recursive |-> FALSE,
           content |-> "", id |-> <<>>, history |-> {}, clear_tags |-> FALSE,
           add_tags |-> <<>>, stdin |-> {}, editor |-> {}, commit |-> "",
           save_output |-> FALSE, text |-> <<>>]

\* The variables take the App A; the request and its outcome are recorded.
\* The batch ran to its end and its last primitive was a Commit.
EndsWithCommit(cmds, err) ==
    /\ err = Ok
    /\ Len(cmds) > 0
    /\ cmds[Len(cmds)].type = "Commit"

\* The request req with the arguments args returns r: the variables take the
\* App it leaves; the request and its outcome are recorded.
Becomes(r, req, args) ==
    /\ wt' = r.a.ci.wt
    /\ index' = r.a.ci.index
    /\ commits' = r.a.ci.commits
    /\ storage' = r.a.ci.storage
    /\ index_open' = r.a.ci.index_open
    /\ lines' = r.a.ci.lines
    /\ changed' = r.a.ci.changed
    /\ now' = r.a.ci.now
    /\ app_storage' = r.a.app_storage
    /\ auto_commit' = r.a.auto_commit
    /\ working_dir' = r.a.working_dir
    /\ requests' = requests + 1
    /\ last' = [req |-> req, args |-> args, cmds |-> r.cmds, err |-> r.err, pre |-> TheApp,
                after_commit |-> EndsWithCommit(last.cmds, last.err)]

\* The destinations a batch writes stay within the depth bound of the model.
WithinDepth(cmds) ==
    \A i \in 1..Len(cmds) :
        /\ cmds[i].type = "MoveNote" => Len(cmds[i].destination) <= MaxDepth
        /\ cmds[i].type \in {"AddNote", "AddNoteWithContent"} => Len(cmds[i].path) <= MaxDepth

Serving == requests < MaxRequests

AddCmd(path, content, id) ==
    [type |-> "AddNoteWithContent", path |-> path, tags |-> <<>>, content |-> content, id |-> id]

\* The outcome r stays within the depth bound, and is taken.
BecomesWithin(r, req, args) ==
    /\ WithinDepth(r.cmds)
    /\ Becomes(r, req, args)

\* A request to add a note, its content read from stdin or left by the editor.
RunAdd(path, content, id, editor) ==
    /\ Serving
    /\ \E ord \in DirOrders(wt.meta) :
          BecomesWithin(App_run_Add(TheApp, path, <<>>, content, id, editor, ord), "Add",
                        [NoArgs EXCEPT !.path = path, !.content = content, !.id = id])

\* A request to move a note or a directory.
RunMove(source, destination, force) ==
    /\ Serving
    /\ \E ord \in DirOrders(wt.meta) :
       \E ordh \in HashOrders(App_note_metadata_storage(TheApp, ord).app_storage) :
          BecomesWithin(App_run_Move(TheApp, source, destination, force, ord, ordh), "Move",
                        [NoArgs EXCEPT !.path = source, !.dest = destination, !.force = force])

\* A request to remove a note or a directory.
RunRemove(path, recursive) ==
    /\ Serving
    /\ \E ord \in DirOrders(wt.meta) :
       \E ordh \in HashOrders(App_note_metadata_storage(TheApp, ord).app_storage) :
          Becomes(App_run_Remove(TheApp, path, recursive, ord, ordh), "Remove",
                  [NoArgs EXCEPT !.path = path, !.recursive = recursive])

\* The request that opens a transaction.
RunBegin ==
    /\ Serving
    /\ Becomes(App_run_Begin(TheApp), "Begin", NoArgs)

\* The request that commits.
RunCommit ==
    /\ Serving
    /\ \E ord \in DirOrders(wt.meta) :
          Becomes(App_run_Commit(TheApp, ord), "Commit", NoArgs)

\* A request to edit a note, its content read from stdin or left by the editor.
RunEdit(path, history, clear_tags, add_tags, stdin, editor) ==
    /\ Serving
    /\ \E ord \in DirOrders(wt.meta) :
          Becomes(App_run_Edit(TheApp, path, history, clear_tags, add_tags, stdin, editor, ord),
                  "Edit",
                  [NoArgs EXCEPT !.path = path, !.history = history, !.clear_tags = clear_tags,
                                 !.add_tags = add_tags, !.stdin = stdin, !.editor = editor])

\* A request to undo a commit.
RunUndo(commit) ==
    /\ Serving
    /\ \E ord \in DirOrders(wt.meta) :
          Becomes(App_run_Undo(TheApp, commit, ord), "Undo", [NoArgs EXCEPT !.commit = commit])

\* A request to run the snippets of a note.
RunRunSnippet(path, save_output) ==
    /\ Serving
    /\ \E ord \in DirOrders(wt.meta) :
          Becomes(App_run_RunSnippet(TheApp, path, save_output, ord), "RunSnippet",
                  [NoArgs EXCEPT !.path = path, !.save_output = save_output])

\* A request to change the working directory.
RunChangeWorkingDirectory(text) ==
    /\ Serving
    /\ \E ord \in DirOrders(wt.meta) :
       \E ordh \in HashOrders(App_note_metadata_storage(TheApp, ord).app_storage) :
          Becomes(App_run_ChangeWorkingDirectory(TheApp, text, ord, ordh), "ChangeWorkingDirectory",
                  [NoArgs EXCEPT !.text = text])

\* A batch of primitives handed to create_and_execute_commands at once.
RunBatch(commands) ==
    /\ Serving
    /\ \E ord \in DirOrders(wt.meta) :
          Becomes(App_batch(TheApp, commands, ord), "Batch", NoArgs)

(***************************************************************************)
(* The inputs of the requests.                                             *)
(***************************************************************************)
sa == <<"a">>
sb == <<"b">>
sx == <<"x">>
sy == <<"y">>

\* What a request to add reads from stdin, and what the editor leaves behind.
StdinContents == {"c2"}
EditorContents == {"c1"}

\* The paths notes are added at; the last one reads as an identifier.
AddPaths == {<<sa, sy>>, <<sb, sx>>, <<MakeId(1)>>}
EditorPaths == {<<sa, sy>>}

\* The sources of move requests and the paths of remove requests.
Sources == {<<sa, sx>>, <<sa, sy>>, <<sa>>}

\* The destinations of move requests.
Destinations == {<<sb, sx>>, <<sa, sb>>, <<sb>>}

\* The batches handed to create_and_execute_commands at once.
Batches ==
    {<<AddCmd(<<sa, sy>>, "c1", MakeId(3)), AddCmd(<<sa, sy>>, "c2", MakeId(1))>>,
     <<CommitCmd>>}

\* The repositories the requests start from: a fresh one, and the ones a first
\* batch of notes leaves behind.
Setups ==
    {<<>>,
     <<AddCmd(<<sa, sx>>, "c1", MakeId(1)), AddCmd(<<sb, sx>>, "c2", MakeId(2))>>,
     <<AddCmd(<<sa, sx>>, "c1", MakeId(1)), AddCmd(<<sa, sb, sx>>, "c2", MakeId(2))>>}

InitApp(setup) ==
    IF setup = <<>> THEN NewApp ELSE App_batch(NewApp, setup, <<>>).a

\* The variables hold the App A, which has served no request.
InitFrom(A) ==
    /\ wt = A.ci.wt
    /\ index = A.ci.index
    /\ commits = A.ci.commits
    /\ storage = A.ci.storage
    /\ index_open = A.ci.index_open
    /\ lines = A.ci.lines
    /\ changed = A.ci.changed
    /\ now = A.ci.now
    /\ app_storage = A.app_storage
    /\ auto_commit = A.auto_commit
    /\ working_dir = A.working_dir
    /\ requests = 0
    /\ last = [req |-> "Init", args |-> NoArgs, cmds |-> <<>>, err |-> Ok, pre |-> NewApp,
               after_commit |-> FALSE]

Init == \E setup \in Setups : InitFrom(InitApp(setup))

Next ==
    \/ \E p \in AddPaths, c \in StdinContents, i \in IdSpace : RunAdd(p, c, i, FALSE)
    \/ \E p \in EditorPaths, c \in EditorContents, i \in IdSpace : RunAdd(p, c, i, TRUE)
    \/ \E s \in Sources, d \in Destinations, f \in BOOLEAN : RunMove(s, d, f)
    \/ \E p \in Sources, r \in BOOLEAN : RunRemove(p, r)
    \/ RunBegin
    \/ RunCommit
    \/ \E b \in Batches : RunBatch(b)

Spec == Init /\ [][Next]_vars

(***************************************************************************)
(* Move requests whose source is an identifier or a glob pattern.          *)
(***************************************************************************)
star == <<"*">>

\* The sources: a note by its path and by its identifier, every top-level
\* entry, every entry whose name ends in x.
MoveSources == {<<sa, sy>>, <<MakeId(1)>>, <<star>>, <<star \o sx>>}

\* The destinations: an existing directory, a name not in use.
MoveDestinations == {<<sb>>, <<sy>>}

MoveSetups ==
    {<<AddCmd(<<sa, sy>>, "c1", MakeId(1)), AddCmd(<<sb, sx>>, "c2", MakeId(2))>>,
     <<AddCmd(<<sa, sx>>, "c1", MakeId(1)), AddCmd(<<sb, sx>>, "c2", MakeId(2))>>}

InitMove == \E setup \in MoveSetups : InitFrom(InitApp(setup))

NextMove ==
    \/ \E s \in MoveSources, d \in MoveDestinations, f \in BOOLEAN : RunMove(s, d, f)
    \/ RunBegin
    \/ RunCommit

SpecMove == InitMove /\ [][NextMove]_vars

(***************************************************************************)
(* Edit and undo requests on a repository that holds one note.             *)
(***************************************************************************)
\* The notes: a/x, whose content is "c2" and whose tags are the automatic
\* ones; in the second repository also a note added before it, whose path
\* reads as the identifier a/x was then given.
EditSetups ==
    {<<AddCmd(<<sa, sx>>, "c2", MakeId(1))>>,
     <<AddCmd(<<MakeId(1)>>, "c1", MakeId(3)), AddCmd(<<sa, sx>>, "c2", MakeId(1))>>}

\* What an edit reads from stdin and what the editor leaves: the content the
\* note starts with, and another one.
EditContents == {"c2", "c3"}

\* The editor leaves the file as it is, or writes another content.
EditorOutcomes == {{}, {"c3"}}

\* The revisions of an edit: none, the commit before HEAD.
Histories == {{}, {"HEAD~1"}}

\* The tags an edit adds.
AddTags == {<<>>, <<"t">>}

\* The revisions of an undo: HEAD, a name no revision has, the tree of HEAD.
UndoRevisions == {"HEAD", "nothing", "HEAD^{tree}"}

\* An order read_dir can list the notes of the App in.
OneOrder(A) == CHOOSE o \in DirOrders(A.ci.wt.meta) : TRUE

\* The App after an edit that added the tag t to the note and was committed,
\* a Begin, and an edit in which the editor changed nothing: a transaction is
\* open and the interpreter has loaded its store.
Tagged(A) == App_run_Edit(A, <<sa, sx>>, {}, FALSE, <<"t">>, {"c2"}, {}, OneOrder(A)).a
Opened(A) == App_run_Edit(A, <<sa, sx>>, {}, FALSE, <<>>, {}, {}, OneOrder(A)).a
OpenTransaction(A) == Opened(App_run_Begin(Tagged(A)).a)

\* The Apps the requests start from: the one that has just added the note, and
\* the one that has gone on to an open transaction.
EditStarts ==
    {InitApp(setup) : setup \in EditSetups}
    \cup {OpenTransaction(InitApp(setup)) : setup \in EditSetups}

InitEdit == \E A \in EditStarts : InitFrom(A)

NextEdit ==
    \/ \E h \in Histories, c \in BOOLEAN, t \in AddTags, e \in EditorOutcomes :
          RunEdit(<<sa, sx>>, h, c, t, {}, e)
    \/ \E h \in Histories, c \in BOOLEAN, t \in AddTags, i \in EditContents :
          RunEdit(<<sa, sx>>, h, c, t, {i}, {})
    \/ \E h \in Histories, e \in EditorOutcomes :
          RunEdit(<<MakeId(3)>>, h, FALSE, <<>>, {}, e)
    \/ \E r \in UndoRevisions : RunUndo(r)
    \/ RunBegin
    \/ RunCommit

SpecEdit == InitEdit /\ [][NextEdit]_vars

(***************************************************************************)
(* Requests to run the snippets of the note a/x.                           *)
(***************************************************************************)
p1 == CodeBlock("python", "p1")
p2 == CodeBlock("python", "p2")
px == CodeBlock("python", "px")
o1 == CodeBlock("output", "o1")
hello == Paragraph("Hello")

\* The documents the note starts with and the ones an edit reads from stdin:
\* a snippet; a paragraph and a snippet; the second snippet with the output
\* of the first; two snippets; a snippet and one that fails; a snippet whose
\* output comes after a paragraph.
SnippetDocuments ==
    {<<p1>>, <<hello, p1>>, <<p2, o1>>, <<p1, p2>>, <<p1, px>>, <<p1, hello, o1>>}

SnippetSetups == {<<AddCmd(<<sa, sx>>, written(d), MakeId(1))>> : d \in SnippetDocuments}

InitSnippet == \E setup \in SnippetSetups : InitFrom(InitApp(setup))

NextSnippet ==
    \/ \E save \in BOOLEAN : RunRunSnippet(<<sa, sx>>, save)
    \/ \E d \in {<<p2, o1>>, <<p1, px>>} :
          RunEdit(<<sa, sx>>, {}, FALSE, <<>>, {written(d)}, {})
    \/ RunBegin
    \/ RunCommit

SpecSnippet == InitSnippet /\ [][NextSnippet]_vars

(***************************************************************************)
(* Batches in which a primitive fails before the last one.                 *)
(***************************************************************************)
\* The batches: an add, an add onto a path in use, a remove; a remove of a
\* note that may not exist, an add; a move, a remove of the moved note by its
\* old path, an add; an add alone.
StepBatches ==
    {<<AddCmd(<<sa, sy>>, "c1", MakeId(3)), AddCmd(<<sa, sx>>, "c3", MakeId(3)),
       RemoveCmd(<<sb, sx>>)>>,
     <<RemoveCmd(<<sa, sy>>), AddCmd(<<sb, sy>>, "c1", MakeId(3))>>,
     <<MoveCmd(<<sa, sx>>, <<sb, sy>>, FALSE), RemoveCmd(<<sa, sx>>),
       AddCmd(<<sa, sy>>, "c3", MakeId(3))>>,
     <<AddCmd(<<sb, sy>>, "c1", MakeId(3))>>}

StepSetups ==
    {<<AddCmd(<<sa, sx>>, "c1", MakeId(1)), AddCmd(<<sb, sx>>, "c2", MakeId(2))>>}

InitStep == \E setup \in StepSetups : InitFrom(InitApp(setup))

NextStep ==
    \/ \E b \in StepBatches : RunBatch(b)
    \/ RunBegin
    \/ RunCommit

SpecStep == InitStep /\ [][NextStep]_vars

(***************************************************************************)
(* Transactions: requests of every kind between Begin and Commit.          *)
(***************************************************************************)
\* The repository the requests start from: the note a/x, committed.
TransactionSetups == {<<AddCmd(<<sa, sx>>, "c2", MakeId(1))>>}

\* The Apps the requests start from: the one that has just added the note, and
\* the one that has gone on to open a transaction.
TransactionStarts ==
    {InitApp(setup) : setup \in TransactionSetups}
    \cup {App_run_Begin(InitApp(setup)).a : setup \in TransactionSetups}

\* The batches handed to create_and_execute_commands at once: the note a/x
\* is given a new content twice, which records the same message line twice.
SetContentCmd(path, content) ==
    [type |-> "EditNoteSetContent", path |-> path, clear_tags |-> FALSE, add_tags |-> <<>>,
     content |-> content]

TransactionBatches == {<<SetContentCmd(<<sa, sx>>, "c1"), SetContentCmd(<<sa, sx>>, "c3")>>}

InitTransaction == \E A \in TransactionStarts : InitFrom(A)

NextTransaction ==
    \/ \E p \in {<<sa, sy>>, <<sa, sx>>} : RunAdd(p, "c1", MakeId(2), FALSE)
    \/ \E t \in AddTags : RunEdit(<<sa, sx>>, {}, FALSE, t, {"c3"}, {})
    \/ \E s \in {<<sa, sx>>, <<sa, sy>>} : RunMove(s, <<sb, sy>>, FALSE)
    \/ \E p \in {<<sa, sx>>, <<sb, sx>>} : RunRemove(p, FALSE)
    \/ RunUndo("HEAD")
    \/ RunBegin
    \/ RunCommit
    \/ \E b \in TransactionBatches : RunBatch(b)

SpecTransaction == InitTransaction /\ [][NextTransaction]_vars

(***************************************************************************)
(* Requests to change the working directory, in a repository whose         *)
(* directories are a and a/a.                                              *)
(***************************************************************************)
\* The characters of the paths given.
PathChars == {"/", ".", "a"}

\* The paths given: every text of up to MaxText characters.
Texts == UNION {[1..n -> PathChars] : n \in 0..MaxText}

ChangeSetups == {<<AddCmd(<<sa, sx>>, "c1", MakeId(1)), AddCmd(<<sa, sa, sx>>, "c2", MakeId(2))>>}

InitChange == \E setup \in ChangeSetups : InitFrom(InitApp(setup))

NextChange == \E text \in Texts : RunChangeWorkingDirectory(text)

SpecChange == InitChange /\ [][NextChange]_vars

(***************************************************************************)
(* What an observer sees: the notes directory loaded afresh.               *)
(***************************************************************************)
\* The stores a fresh load of the directory meta can produce.
Loads(meta) == {from_dir(meta, o) : o \in DirOrders(meta)}

\* The notes of the working tree t: the records of its metadata files.
NotesOf(t) == {t.meta[f] : f \in DOMAIN t.meta}

\* In the working tree t the note n resolves at its path to its identifier,
\* and its content file exists.
Resolved(t, n) ==
    /\ n.id \in DOMAIN t.md
    /\ \A L \in Loads(t.meta) : get_id(L, n.path) = {n.id}

\* The working tree the last request started from.
PreTree == last.pre.ci.wt

\* The note n of the tree before the last request resolves now as it did: at
\* its path, to its identifier, with its content.
AsBefore(n) ==
    \A L \in Loads(wt.meta) :
        /\ get_id(L, n.path) = {n.id}
        /\ get_content(L, wt.md, n.path) = {PreTree.md[n.id]}

\* The last request created n commits.
Created(n) == Len(commits) = Len(last.pre.ci.commits) + n

\* The last request planned exactly one primitive, of the given type, followed
\* by a Commit when the App commits automatically.
PlannedOne(type) ==
    /\ last.cmds # <<>>
    /\ last.cmds[1].type = type
    /\ Len(last.cmds) = IF last.pre.auto_commit THEN 2 ELSE 1

(***************************************************************************)
(* The claims.                                                             *)
(***************************************************************************)
\* C1: in every reachable state no two existing notes claim the same virtual
\* path.
C1_UniquePaths ==
    \A f, g \in DOMAIN wt.meta : f # g => wt.meta[f].path # wt.meta[g].path

\* C2: when an automatically committed request adds a note with a content at
\* a virtual path no note occupies, the request succeeds, the path resolves to
\* a note whose content reads as the content supplied, and exactly one commit
\* is created.
C2_AddThenRead ==
    (/\ last.req = "Add"
     /\ last.pre.auto_commit
     /\ PlannedOne("AddNoteWithContent")
     /\ \A n \in NotesOf(PreTree) : n.path # last.cmds[1].path)
    => (/\ last.err = Ok
        /\ \A L \in Loads(wt.meta) :
              get_content(L, wt.md, last.cmds[1].path) = {last.cmds[1].content}
        /\ Created(1))

\* The note n of the tree t is committed: the tree of HEAD holds its metadata
\* and its content as t does.
Committed(A, n) ==
    /\ A.ci.commits # <<>>
    /\ HasFile(A.ci.commits[Len(A.ci.commits)].tree, get_note_metadata_path(n.id))
    /\ HasFile(A.ci.commits[Len(A.ci.commits)].tree, get_note_storage_path(n.id))
    /\ A.ci.commits[Len(A.ci.commits)].tree.meta[n.id] = n
    /\ A.ci.commits[Len(A.ci.commits)].tree.md[n.id] = A.ci.wt.md[n.id]

\* C3: when a move or remove request fails, no commit is created and every
\* committed note that resolved before the request still resolves at its path
\* to its identifier with its content.
C3_RollbackRestores ==
    (last.req \in {"Move", "Remove"} /\ last.err # Ok)
    => (/\ Created(0)
        /\ \A n \in NotesOf(PreTree) :
              (Resolved(PreTree, n) /\ Committed(last.pre, n)) => AsBefore(n))

\* The last request moved the note src onto the path of another note dst,
\* both resolving before the request, with the given force.
MoveOnto(src, dst, force) ==
    /\ last.req = "Move"
    /\ PlannedOne("MoveNote")
    /\ last.cmds[1].force = force
    /\ src.path = last.cmds[1].source
    /\ dst.path = last.cmds[1].destination
    /\ src.id # dst.id
    /\ Resolved(PreTree, src)
    /\ Resolved(PreTree, dst)

\* C4: a move without force onto a path occupied by another note fails with
\* NoteExistsAtDestination naming the destination, creates no commit, and
\* leaves both notes resolving at their paths with their identifiers and
\* contents.
C4_MoveOntoOccupiedFails ==
    \A src, dst \in NotesOf(PreTree) :
        MoveOnto(src, dst, FALSE)
        => (/\ last.err = Err("NoteExistsAtDestination", dst.path)
            /\ Created(0)
            /\ AsBefore(src)
            /\ AsBefore(dst))

\* C5: a move with force onto a path occupied by another note succeeds; the
\* occupying note resolves no more, by path or by identifier; the moved note
\* resolves at the destination with its identifier and content and no more at
\* its old path; an automatically committed request creates exactly one commit.
C5_ForcedMoveReplaces ==
    \A src, dst \in NotesOf(PreTree) :
        MoveOnto(src, dst, TRUE)
        => (/\ last.err = Ok
            /\ \A L \in Loads(wt.meta) :
                  /\ get_id(L, dst.path) = {src.id}
                  /\ get_content(L, wt.md, dst.path) = {PreTree.md[src.id]}
                  /\ get_id(L, src.path) = {}
                  /\ get_id(L, <<NoteId_to_string(dst.id)>>) = {}
            /\ last.pre.auto_commit => Created(1))

\* The tree of HEAD of the App A.
HeadTree(A) == A.ci.commits[Len(A.ci.commits)].tree

\* C6: the request that commits creates a commit if and only if there was no
\* HEAD or the tree of the index differed from the tree of HEAD; and no commit
\* of the history has the same tree as its parent.
C6_CommitIffDiffers ==
    /\ \A k \in 2..Len(commits) : commits[k].tree # commits[k - 1].tree
    /\ last.req = "Commit"
       => /\ Created(0) \/ Created(1)
          /\ Created(1) <=> (\/ last.pre.ci.commits = <<>>
                             \/ last.pre.ci.index # HeadTree(last.pre))

\* A commit request created a commit on top of HEAD.
C6_Witness ==
    /\ last.req = "Commit"
    /\ last.pre.ci.commits # <<>>
    /\ Created(1)

\* C7: a Commit executed right after another Commit creates no commit: the
\* commit request that follows a batch ended by a Commit leaves the number of
\* commits unchanged, and the batch <<Commit, Commit>> creates as many commits
\* as its first Commit alone.
C7_CommitTwice ==
    /\ (last.req = "Commit" /\ last.after_commit) => Created(0)
    /\ (last.req = "Batch" /\ last.cmds = <<CommitCmd, CommitCmd>>)
       => Len(commits) = Len(Commit(tick(last.pre.ci)).s.commits)

\* A commit request followed a batch ended by a Commit, on an existing HEAD.
C7_Witness ==
    /\ last.req = "Commit"
    /\ last.after_commit
    /\ last.pre.ci.commits # <<>>
    /\ last.err = Ok

\* The loaded stores of the state: what a fresh load gives, and the caches of
\* the interpreter and of the App.
LoadedStores ==
    Loads(wt.meta)
    \cup (IF storage.loaded THEN {storage} ELSE {})
    \cup (IF app_storage.loaded THEN {app_storage} ELSE {})

\* C8: in every loaded store, the textual form of the identifier of each note
\* resolves to that note.
C8_OwnIdResolves ==
    \A L \in LoadedStores : \A id \in DOMAIN L.id_to_notes :
        /\ get_id(L, <<NoteId_to_string(id)>>) = {id}
        /\ get(L, <<NoteId_to_string(id)>>) = {L.id_to_notes[id]}

\* A loaded store where the path of one note reads as the identifier of
\* another.
C8_Witness ==
    \E L \in LoadedStores : \E i, j \in DOMAIN L.id_to_notes :
        /\ i # j
        /\ L.id_to_notes[j].path = <<NoteId_to_string(i)>>
        /\ get_id(L, L.id_to_notes[j].path) = {i}

\* The notes of the tree t under the directory A.
Under(t, A) == {n \in NotesOf(t) : IsProperPrefix(A, n.path)}

\* The MoveNote primitives the last request planned.
PlannedMoves == {last.cmds[i] : i \in {j \in 1..Len(last.cmds) : last.cmds[j].type = "MoveNote"}}

\* No note outside the directory A occupies a path B/rel a note under A is
\* moved to.
DestinationsFree(t, A, B) ==
    \A n \in Under(t, A) : \A m \in NotesOf(t) \ Under(t, A) :
        m.path # PathJoin(B, Rel(A, n.path))

\* C9: an automatically committed request that moves the directory A to B,
\* from a tree where every note resolves and, unless force is set, no note
\* outside A occupies a destination, plans one MoveNote per note under A, from
\* A/rel to B/rel, and succeeds; afterwards every such note resolves at B/rel
\* with its content, none resolves at an old path that is not itself a
\* destination, and exactly one commit is created.
C9_DirectoryMove ==
    (/\ last.req = "Move"
     /\ last.pre.auto_commit
     /\ Under(PreTree, last.args.path) # {}
     /\ \A n \in NotesOf(PreTree) : Resolved(PreTree, n) /\ ~IsPrefix(n.path, last.args.path)
     /\ last.args.force \/ DestinationsFree(PreTree, last.args.path, last.args.dest))
    => (/\ PlannedMoves =
              {MoveCmd(n.path, PathJoin(last.args.dest, Rel(last.args.path, n.path)), last.args.force) :
                  n \in Under(PreTree, last.args.path)}
        /\ last.err = Ok
        /\ Created(1)
        /\ \A n \in Under(PreTree, last.args.path) : \A L \in Loads(wt.meta) :
              /\ get_id(L, PathJoin(last.args.dest, Rel(last.args.path, n.path))) = {n.id}
              /\ get_content(L, wt.md, PathJoin(last.args.dest, Rel(last.args.path, n.path)))
                    = {PreTree.md[n.id]}
              /\ (\A m \in Under(PreTree, last.args.path) :
                     n.path # PathJoin(last.args.dest, Rel(last.args.path, m.path)))
                 => get_id(L, n.path) = {})

\* The store the planner of the last request read: the cache of the App, or a
\* fresh load when the cache was empty.
PlanStore ==
    IF last.pre.app_storage.loaded THEN last.pre.app_storage
    ELSE CHOOSE L \in Loads(PreTree.meta) : TRUE

\* The trees the planner can have built from it.
PlanTrees == {from_iter(notes_in_order(PlanStore, oh)) : oh \in HashOrders(PlanStore)}

\* The paths of the leaves of the tree T below the directory A.
LeavesUnder(T, A) ==
    UNION {{p \in DOMAIN nodes : nodes[p].is_note /\ IsProperPrefix(A, p)} : nodes \in T}

\* The source of the last move request is an interior directory of the tree,
\* however the tree was built.
DirectorySource ==
    /\ last.req = "Move"
    /\ \A T \in PlanTrees : T # {} /\ \A nodes \in T :
          /\ find(nodes, resolve_path(PlanStore, last.args.path)) # {}
          /\ is_tree(nodes, resolve_path(PlanStore, last.args.path))

\* C10: when the source of a move is an interior directory, the plan is one
\* MoveNote per leaf under it, from source/rel to destination/rel, whether or
\* not the destination is an existing directory.
C10_DirectoryPlan ==
    DirectorySource
    => (/\ \A c \in PlannedMoves :
              /\ IsProperPrefix(resolve_path(PlanStore, last.args.path), c.source)
              /\ c.destination =
                    PathJoin(resolve_path(PlanStore, last.args.dest),
                             Rel(resolve_path(PlanStore, last.args.path), c.source))
              /\ c.force = last.args.force
        /\ \E T \in PlanTrees :
              {c.source : c \in PlannedMoves}
                 = LeavesUnder(T, resolve_path(PlanStore, last.args.path))
        /\ Len(last.cmds) = Cardinality(PlannedMoves) + (IF last.pre.auto_commit THEN 1 ELSE 0))

\* The directory a was moved to its own sub-directory a/b: the note a/b/x was
\* sent to a/b/b/x.
C10_Witness ==
    /\ DirectorySource
    /\ last.args.path = <<sa>>
    /\ last.args.dest = <<sa, sb>>
    /\ MoveCmd(<<sa, sb, sx>>, <<sa, sb, sb, sx>>, last.args.force) \in PlannedMoves


\* Every note of the tree t resolves at its path, and no path runs through
\* another note.
WellFormed(t) ==
    \A n \in NotesOf(t) :
        /\ Resolved(t, n)
        /\ \A m \in NotesOf(t) : m.id # n.id => ~IsPrefix(m.path, n.path)

\* The path p is an interior directory of the tree t.
Interior(t, p) == \E m \in NotesOf(t) : IsProperPrefix(p, m.path)

\* The last request moved the single note n, named by its path or by its
\* identifier, to the existing directory last.args.dest, where its file name
\* is free.
MoveIntoDirectory(n) ==
    /\ last.req = "Move"
    /\ ~contains_star(last.args.path)
    /\ WellFormed(PreTree)
    /\ \A L \in Loads(PreTree.meta) : get_id(L, last.args.path) = {n.id}
    /\ Interior(PreTree, last.args.dest)
    /\ \A m \in NotesOf(PreTree) : m.path # PathJoin(last.args.dest, <<n.path[Len(n.path)]>>)

\* C11: a move of a single note, named by its path or by its identifier, to
\* an existing interior directory plans one MoveNote whose destination is the
\* directory joined with the last segment of the note's virtual path, and
\* when the request succeeds the note resolves there.
C11_MoveIntoDirectory ==
    \A n \in NotesOf(PreTree) :
        MoveIntoDirectory(n)
        => (/\ Cardinality(PlannedMoves) = 1
            /\ \A c \in PlannedMoves :
                  c.destination = PathJoin(last.args.dest, <<n.path[Len(n.path)]>>)
            /\ last.err = Ok
               => \A L \in Loads(wt.meta) :
                     get_id(L, PathJoin(last.args.dest, <<n.path[Len(n.path)]>>)) = {n.id})
\* The notes of the tree t at or under an entry the pattern matches.
Matched(t, pattern) ==
    {n \in NotesOf(t) :
        \E k \in 1..Len(n.path) :
            glob_is_match(PathToStr(pattern), PathToStr(SubSeq(n.path, 1, k)))}

\* The note of the tree t at the path p.
NoteAt(t, p) == {n \in NotesOf(t) : n.path = p}

\* The last request was an automatically committed move by a glob pattern
\* that matches some note, from a tree where every note resolves; unless
\* force is set, no note that stays occupies a planned destination.
GlobMove ==
    /\ last.req = "Move"
    /\ last.pre.auto_commit
    /\ contains_star(last.args.path)
    /\ WellFormed(PreTree)
    /\ Matched(PreTree, last.args.path) # {}
    /\ \/ last.args.force
       \/ \A c \in PlannedMoves :
             \A m \in NotesOf(PreTree) \ Matched(PreTree, last.args.path) :
                m.path # c.destination

\* C12: an automatically committed move by a glob pattern plans a MoveNote
\* for every note at or under a matched entry and succeeds; afterwards each
\* such note resolves at the destination planned for it with its content,
\* none resolves at its old path, and exactly one commit is created.
C12_GlobMove ==
    GlobMove
    => (/\ {c.source : c \in PlannedMoves} = {n.path : n \in Matched(PreTree, last.args.path)}
        /\ last.err = Ok
        /\ Created(1)
        /\ \A c \in PlannedMoves : \A n \in NoteAt(PreTree, c.source) :
              \A L \in Loads(wt.meta) :
                 /\ get_id(L, c.destination) = {n.id}
                 /\ get_content(L, wt.md, c.destination) = {PreTree.md[n.id]}
                 /\ (\A d \in PlannedMoves : d.destination # c.source)
                    => get_id(L, c.source) = {})
\* The last request asked to remove the interior directory last.args.path of
\* a tree where every note resolves.
RemoveDirectory(recursive) ==
    /\ last.req = "Remove"
    /\ last.args.recursive = recursive
    /\ ~contains_star(last.args.path)
    /\ WellFormed(PreTree)
    /\ Interior(PreTree, last.args.path)

\* C13: a remove request without recursive on an interior directory fails,
\* creates no commit, and leaves every note resolving at its path with its
\* identifier and content.
C13_RemoveDirectoryFails ==
    RemoveDirectory(FALSE)
    => (/\ last.err # Ok
        /\ Created(0)
        /\ \A n \in NotesOf(PreTree) : AsBefore(n))
\* The RemoveNote primitives the last request planned.
PlannedRemoves == {last.cmds[i] : i \in {j \in 1..Len(last.cmds) : last.cmds[j].type = "RemoveNote"}}

\* The note n is gone from the working tree: it resolves neither by its path
\* nor by its identifier, and its files do not exist.
Gone(n) ==
    /\ n.id \notin DOMAIN wt.md
    /\ n.id \notin DOMAIN wt.meta
    /\ \A L \in Loads(wt.meta) :
          /\ get_id(L, n.path) = {}
          /\ get_id(L, <<NoteId_to_string(n.id)>>) = {}
          /\ get_content(L, wt.md, n.path) = {}

RemoveOne(n) ==
    /\ last.req = "Remove"
    /\ last.pre.auto_commit
    /\ WellFormed(PreTree)
    /\ last.args.path = n.path
    /\ PlannedOne("RemoveNote")

EditedIds == get_id(from_dir(last.pre.ci.wt.meta, OneOrder(last.pre)), last.args.path)
Edited == IF EditedIds = {} THEN MakeId(1) ELSE CHOOSE i \in EditedIds : TRUE

\* The elements of a sequence.
Range(seq) == {seq[i] : i \in 1..Len(seq)}

\* The message lines of the commits made by the last request.
NewMessages ==
    UNION {Range(commits[k].message) : k \in (Len(last.pre.ci.commits) + 1)..Len(commits)}

\* The last request was a successful edit without tag changes that left the
\* content of the note as it was.
NoOpEdit ==
    /\ last.req = "Edit"
    /\ last.err = Ok
    /\ ~last.args.clear_tags
    /\ last.args.add_tags = <<>>
    /\ Edited \in DOMAIN wt.md \cap DOMAIN last.pre.ci.wt.md
    /\ Edited \in DOMAIN wt.meta \cap DOMAIN last.pre.ci.wt.meta
    /\ wt.md[Edited] = last.pre.ci.wt.md[Edited]

\* C16: an edit that leaves the content of the note identical, with
\* clear_tags false and no tags to add, does not change the last_updated of
\* the note and adds no line to the pending commit message nor to the message
\* of a commit.
C16_NoOpEdit ==
    NoOpEdit =>
        /\ wt.meta[Edited].last_updated = last.pre.ci.wt.meta[Edited].last_updated
        /\ Range(lines) \cup NewMessages \subseteq Range(last.pre.ci.lines)

\* The last request was a successful edit of the note.
EditDone ==
    /\ last.req = "Edit"
    /\ last.err = Ok
    /\ Edited \in DOMAIN wt.meta \cap DOMAIN last.pre.ci.wt.meta

\* The tags of the note before the last request, and after it.
TagsBefore == last.pre.ci.wt.meta[Edited].tags
TagsNow == wt.meta[Edited].tags

\* The last request made exactly one commit.
OneCommit == Len(commits) = Len(last.pre.ci.commits) + 1

\* C17: an edit with clear_tags = c and add_tags = T sets the tags of the note
\* to (the empty list if c, otherwise the previous tags) followed by T; when
\* the tags changed, the Commit that follows creates exactly one commit, even
\* if the content is identical.
C17_EditTags ==
    EditDone =>
        /\ TagsNow = (IF last.args.clear_tags THEN <<>> ELSE TagsBefore) \o last.args.add_tags
        /\ (TagsNow # TagsBefore /\ last.pre.auto_commit) => OneCommit

\* The last request was a successful, automatically committed edit that added
\* tags, did not clear them and left the content of the note as it was.
TagOnlyEdit ==
    /\ EditDone
    /\ last.pre.auto_commit
    /\ ~last.args.clear_tags
    /\ last.args.add_tags # <<>>
    /\ Edited \in DOMAIN wt.md \cap DOMAIN last.pre.ci.wt.md
    /\ wt.md[Edited] = last.pre.ci.wt.md[Edited]

\* C18: an edit with clear_tags false, tags to add and a content identical to
\* the current one creates exactly one new commit at the Commit that follows:
\* the metadata file differs from the one of HEAD.
C18_TagEditCommits == TagOnlyEdit => OneCommit

\* C18 as stated: such an edit creates no new commit.
C18_NoCommit == TagOnlyEdit => Len(commits) = Len(last.pre.ci.commits)

\* A tag-only edit was committed.
C18_Witness == TagOnlyEdit /\ OneCommit /\ last.args.stdin # {}

\* The content the last request read from stdin.
StdinContent == CHOOSE c \in last.args.stdin : TRUE

\* The last request was a successful, automatically committed edit that read
\* from stdin a content different from the one the note had.
SetNewContent ==
    /\ EditDone
    /\ last.pre.auto_commit
    /\ last.args.stdin # {}
    /\ Edited \in DOMAIN last.pre.ci.wt.md
    /\ StdinContent # last.pre.ci.wt.md[Edited]

\* The last request was a successful edit with the revision HEAD~1 in which
\* the editor changed nothing.
EditFromHistory ==
    /\ EditDone
    /\ last.args.stdin = {}
    /\ last.args.history = {"HEAD~1"}
    /\ last.args.editor = {}

\* The content of the note in the commit before the HEAD the last request
\* started from ({} when there is none).
ContentOneCommitEarlier ==
    IF Len(last.pre.ci.commits) < 2 THEN {}
    ELSE FileOf(last.pre.ci.commits[Len(last.pre.ci.commits) - 1].tree,
                get_note_storage_path(Edited))

\* C19: an edit that sets a content different from the current one, followed
\* by Commit, makes the content read for the note the new content, keeps the
\* id and the path of the note, bumps last_updated and creates exactly one new
\* commit; an edit with the revision HEAD~1 and an editor that changes nothing
\* yields the content the note had one commit earlier.
C19_Edit ==
    /\ SetNewContent =>
          /\ FileOf(wt, get_note_storage_path(Edited)) = {StdinContent}
          /\ FileOf(HeadTree(TheApp), get_note_storage_path(Edited)) = {StdinContent}
          /\ wt.meta[Edited].id = Edited
          /\ wt.meta[Edited].path = last.pre.ci.wt.meta[Edited].path
          /\ wt.meta[Edited].last_updated > last.pre.ci.wt.meta[Edited].last_updated
          /\ OneCommit
    /\ EditFromHistory =>
          FileOf(wt, get_note_storage_path(Edited)) = ContentOneCommitEarlier

\* The last request asked to undo the commit HEAD pointed to, outside a
\* transaction.
UndoLatest ==
    /\ last.req = "Undo"
    /\ last.args.commit = "HEAD"
    /\ last.pre.auto_commit
    /\ last.pre.ci.commits # <<>>

\* The notes whose content the commit HEAD pointed to changed: the commit and
\* its parent both hold the content file, with different contents.
ContentChanged ==
    {i \in DOMAIN HeadTree(last.pre).md :
        /\ i \in DOMAIN parent_tree(last.pre.ci, Len(last.pre.ci.commits)).md
        /\ HeadTree(last.pre).md[i] # parent_tree(last.pre.ci, Len(last.pre.ci.commits)).md[i]}

\* The history the last request started from is a prefix of the history now.
HistoryKept ==
    /\ Len(commits) >= Len(last.pre.ci.commits)
    /\ SubSeq(commits, 1, Len(last.pre.ci.commits)) = last.pre.ci.commits

\* C20: UndoCommit of the latest commit, which changed the content of a note,
\* followed by Commit gives the note the content it had before that commit and
\* adds exactly one commit on top of the history, which is otherwise kept; an
\* UndoCommit of a revision that identifies no commit fails and records no
\* message line.
C20_Undo ==
    /\ (UndoLatest /\ last.err = Ok /\ ContentChanged # {}) =>
          /\ \A i \in ContentChanged :
                /\ FileOf(wt, get_note_storage_path(i))
                     = {parent_tree(last.pre.ci, Len(last.pre.ci.commits)).md[i]}
                /\ FileOf(HeadTree(TheApp), get_note_storage_path(i))
                     = FileOf(wt, get_note_storage_path(i))
          /\ OneCommit
          /\ HistoryKept
    /\ (last.req = "Undo" /\ last.args.commit \in {"nothing", "HEAD^{tree}"}) =>
          /\ last.err # Ok
          /\ lines = last.pre.ci.lines
          /\ commits = last.pre.ci.commits

\* The undo of a commit that changed the content of a note was committed.
C20_Witness == UndoLatest /\ last.err = Ok /\ ContentChanged # {} /\ OneCommit

(***************************************************************************)
(* Running snippets.                                                       *)
(***************************************************************************)
\* The note whose snippets are run.
Snippets == MakeId(1)

\* The last request ran the snippets of the note, saving the output, and
\* succeeded.
SavedRun ==
    /\ last.req = "RunSnippet"
    /\ last.args.save_output
    /\ last.err = Ok
    /\ Snippets \in DOMAIN wt.md \cap DOMAIN last.pre.ci.wt.md

\* The document of the note before the last request, and after it.
DocBefore == parse(last.pre.ci.wt.md[Snippets])
DocNow == parse(wt.md[Snippets])

\* The i-th block of the document is an output block.
IsOutput(doc, i) ==
    i \in 1..Len(doc) /\ doc[i].node = "CodeBlock" /\ doc[i].info = "output"

\* The code blocks of the document that no output block follows.
Unanswered(doc) == {i \in 1..Len(doc) : is_code(doc[i]) /\ ~IsOutput(doc, i + 1)}

\* The blocks of the document that are not output blocks, in order.
RECURSIVE Written(_)
Written(doc) ==
    IF doc = <<>> THEN <<>>
    ELSE IF IsOutput(doc, 1) THEN Written(Tail(doc))
    ELSE <<Head(doc)>> \o Written(Tail(doc))

\* C21: after RunSnippet with save_output every runnable code block is
\* followed by an output block that holds the output of this run; an output
\* block was added only for the code blocks no output block followed, the
\* other output blocks were rewritten in place, so a second run adds none; the
\* Commit that follows creates one commit when the content changed.
C21_SavedOutput ==
    SavedRun =>
        /\ \A i \in 1..Len(DocNow) :
              is_code(DocNow[i]) =>
                  /\ IsOutput(DocNow, i + 1)
                  /\ DocNow[i + 1].literal = snippet_run(DocNow[i].info, DocNow[i].literal).output
        /\ Written(DocNow) = Written(DocBefore)
        /\ Len(DocNow) = Len(DocBefore) + Cardinality(Unanswered(DocBefore))
        /\ (wt.md[Snippets] # last.pre.ci.wt.md[Snippets] /\ last.pre.auto_commit) => OneCommit

\* The code of a snippet was changed after a run; the next run replaced the
\* old output and was committed.
C21_Witness ==
    /\ SavedRun
    /\ DocBefore = <<p2, o1>>
    /\ DocNow = <<p2, CodeBlock("output", "o2")>>
    /\ OneCommit

\* The code blocks of the document whose execution fails.
Failing(doc) ==
    {i \in 1..Len(doc) : is_code(doc[i]) /\ snippet_run(doc[i].info, doc[i].literal).err # Ok}

\* The code blocks of the document that run before the first failing one.
RanBefore(doc) == {i \in 1..Len(doc) : is_code(doc[i]) /\ \A j \in Failing(doc) : i < j}

\* The last request ran, to save the output, the snippets of a document with
\* a section whose execution fails.
FailedRun ==
    /\ last.req = "RunSnippet"
    /\ last.args.save_output
    /\ Snippets \in DOMAIN wt.md \cap DOMAIN last.pre.ci.wt.md
    /\ Failing(DocBefore) # {}

\* C22: when the execution of a section fails, RunSnippet fails, and the note
\* keeps the output blocks rewritten for the sections that ran before the
\* failing one: each of them is followed by an output block with its output.
C22_PartialOutputKept ==
    FailedRun =>
        /\ last.err # Ok
        /\ \A i \in RanBefore(DocBefore) :
              \E j \in 1..Len(DocNow) :
                  /\ DocNow[j] = DocBefore[i]
                  /\ IsOutput(DocNow, j + 1)
                  /\ DocNow[j + 1].literal
                       = snippet_run(DocBefore[i].info, DocBefore[i].literal).output

(***************************************************************************)
(* Batches.                                                                *)
(***************************************************************************)
\* What the primitives of a batch return when each is run on the state its
\* predecessor left, whether that one failed or not.
RECURSIVE RunAll(_, _, _)
RunAll(S, cmds, ord) ==
    IF cmds = <<>> THEN <<>>
    ELSE <<ExecCommand(S, Head(cmds), ord)>>
         \o RunAll(ExecCommand(S, Head(cmds), ord).s, Tail(cmds), ord)

\* The position of the first result that is an error (0 when there is none).
FirstFailure(results) ==
    IF \A i \in 1..Len(results) : results[i].err = Ok THEN 0
    ELSE CHOOSE i \in 1..Len(results) :
             /\ results[i].err # Ok
             /\ \A j \in 1..(i - 1) : results[j].err = Ok

\* The last batch ended as the results say when execution stops at the f-th
\* primitive: the error and the state are the ones that primitive left, and
\* when it failed no commit was created.
StoppedAt(results, f) ==
    IF f = 0
    THEN last.err = Ok /\ (results # <<>> => TheApp.ci = results[Len(results)].s)
    ELSE /\ last.err = results[f].err
         /\ TheApp.ci = results[f].s
         /\ now = last.pre.ci.now + f
         /\ commits = last.pre.ci.commits

\* C23: execute runs the primitives of a batch in order; when one fails no
\* later primitive runs, a trailing Commit creates no commit, and the error
\* returned is that of the first failing primitive.
C23_StopsAtFirstError ==
    last.req = "Batch" =>
        \E ord \in DirOrders(last.pre.ci.wt.meta) :
            StoppedAt(RunAll(last.pre.ci, last.cmds, ord),
                      FirstFailure(RunAll(last.pre.ci, last.cmds, ord)))

\* A batch failed at its second primitive, with a third and a Commit to go.
C23_Witness ==
    /\ last.req = "Batch"
    /\ Len(last.cmds) = 4
    /\ last.err # Ok
    /\ now = last.pre.ci.now + 2

(***************************************************************************)
(* Transactions.                                                           *)
(***************************************************************************)
\* The last request was served inside a transaction.
InTransaction == ~last.pre.auto_commit

\* The last request was one that changes notes.
Mutating == last.req \in {"Add", "Edit", "Move", "Remove", "Undo", "RunSnippet"}

\* A Commit primitive is part of the batch.
PlansCommit(cmds) == \E i \in 1..Len(cmds) : cmds[i].type = "Commit"

\* Every file of the working tree is in the tree of HEAD as it is on disk.
AllCommitted == HeadTree(TheApp) = wt

\* C24: inside a transaction a mutating request plans no Commit and creates
\* no commit; the Commit request creates one commit, after which HEAD holds
\* every file as the working tree has it, when the working tree differs from
\* HEAD, and none otherwise, and sets auto_commit again; outside a
\* transaction every mutating request ends its batch with a Commit.
C24_Transaction ==
    /\ (InTransaction /\ Mutating) => (~PlansCommit(last.cmds) /\ Created(0))
    /\ (InTransaction /\ last.req = "Commit") =>
          /\ last.err = Ok
          /\ Created(IF HeadTree(last.pre) # last.pre.ci.wt THEN 1 ELSE 0)
          /\ AllCommitted
          /\ auto_commit
    /\ (~InTransaction /\ Mutating /\ last.cmds # <<>>) =>
          last.cmds[Len(last.cmds)].type = "Commit"

\* A transaction of two requests that changed notes has been committed.
C24_Witness ==
    /\ InTransaction
    /\ last.req = "Commit"
    /\ Created(1)
    /\ last.pre.ci.changed # <<>>
    /\ Len(last.pre.ci.lines) >= 2

(***************************************************************************)
(* Rollback.                                                               *)
(***************************************************************************)
\* The last request was a move or a remove whose batch failed with a HEAD to
\* go back to: App::run called reset().
RolledBack ==
    /\ last.req \in {"Move", "Remove"}
    /\ last.err # Ok
    /\ last.pre.ci.commits # <<>>

\* Every file of the trees s, t and u.
FilesOf(s, t, u) == TreeFiles(s) \cup TreeFiles(t) \cup TreeFiles(u)

\* The paths the interpreter S has recorded in changed_files.
Recorded(S) == {S.changed[i] : i \in 1..Len(S.changed)}

\* reset() acted on the interpreter S as claimed: the recorded files are as
\* HEAD has them, the other files of the working tree are as they were, and
\* changed_files and the pending lines are empty.
ResetOf(S) ==
    /\ \A f \in FilesOf(S.wt, wt, HeadTree(TheApp)) :
          FileOf(wt, f) = IF f \in Recorded(S) THEN FileOf(HeadTree(TheApp), f) ELSE FileOf(S.wt, f)
    /\ changed = <<>>
    /\ lines = <<>>

\* C25: reset() restores to HEAD exactly the files recorded in changed_files,
\* leaves every other file of the working tree as the failed batch left it,
\* and empties changed_files and the pending message lines.
C25_Reset ==
    RolledBack =>
        \E ord \in DirOrders(last.pre.ci.wt.meta) :
            /\ execute(last.pre.ci, last.cmds, ord).err = last.err
            /\ ResetOf(execute(last.pre.ci, last.cmds, ord).s)

(***************************************************************************)
(* new_commit.                                                             *)
(***************************************************************************)
\* The tree a commit made now would have as its parent's (the empty tree
\* before the first commit).
BaseTree == IF commits = <<>> THEN EmptyTree ELSE HeadTree(TheApp)

\* C26: after new_commit() (the Begin request) nothing is staged, that is,
\* the index holds the tree of HEAD, so that what was staged before is in no
\* later commit unless it is staged again; no message line is pending, and
\* the working tree is as it was.
C26_NewCommit ==
    last.req = "Begin" =>
        /\ index = BaseTree
        /\ lines = <<>>
        /\ wt = last.pre.ci.wt

(***************************************************************************)
(* After a commit.                                                         *)
(***************************************************************************)
\* The batch of the last request ran to its end, its last primitive was a
\* Commit, and that Commit created a commit.
CommitCreated ==
    /\ EndsWithCommit(last.cmds, last.err)
    /\ Created(1)

\* C27: after a Commit primitive that created a commit the index of the
\* interpreter is unopened, no message line is pending, changed_files is
\* empty and the cached store is unloaded.
C27_AfterCommit ==
    CommitCreated =>
        /\ ~index_open
        /\ lines = <<>>
        /\ changed = <<>>
        /\ ~storage.loaded

\* A transaction that had opened the index, loaded the store, recorded
\* changed files and message lines has been committed.
C27_Witness ==
    /\ CommitCreated
    /\ last.req = "Commit"
    /\ last.pre.ci.index_open
    /\ last.pre.ci.storage.loaded
    /\ last.pre.ci.changed # <<>>
    /\ last.pre.ci.lines # <<>>

(***************************************************************************)
(* Resolution of a token.                                                  *)
(***************************************************************************)
\* The tokens resolved: the textual form of every identifier, notes' paths,
\* a path no note has, and a text too short for an identifier.
Tokens ==
    {<<NoteId_to_string(i)>> : i \in IdSpace}
    \cup {<<sa, sx>>, <<sa, sy>>, <<sb, sx>>, <<sb, sb>>, <<<<"0", "0">>>>}

\* The identifiers the token reads as, among those of the notes of the store L.
ExistingId(L, token) ==
    {i \in DOMAIN L.id_to_notes : Len(token) = 1 /\ token[1] = NoteId_to_string(i)}

\* C28: a token that reads as the identifier of a note of the store resolves
\* to that note, whatever the path index holds for it; any other token
\* resolves to what the path index holds for it; and resolution fails only
\* when neither gives a note.
C28_ResolveOrder ==
    \A L \in LoadedStores : \A token \in Tokens :
        /\ ExistingId(L, token) # {}
              => get_id(L, token) = ExistingId(L, token)
        /\ (ExistingId(L, token) = {} /\ token \in DOMAIN L.path_to_id)
              => get_id(L, token) = {L.path_to_id[token]}
        /\ get_id(L, token) = {}
              <=> (ExistingId(L, token) = {} /\ token \notin DOMAIN L.path_to_id)

\* A loaded store where a token reads as an identifier no note has and is the
\* path of a note, which it resolves to.
C28_Witness ==
    \E L \in LoadedStores : \E token \in Tokens :
        /\ NoteId_from_str(PathToStr(token)) # {}
        /\ ExistingId(L, token) = {}
        /\ token \in DOMAIN L.path_to_id
        /\ get_id(L, token) = {L.path_to_id[token]}

(***************************************************************************)
(* The pending message lines.                                              *)
(***************************************************************************)
\* No element occurs twice in the sequence.
NoDuplicates(seq) == \A i, j \in 1..Len(seq) : seq[i] = seq[j] => i = j

\* The batch of the last request without the Commit it ends with.
BeforeCommit(cmds) == SubSeq(cmds, 1, Len(cmds) - 1)

\* The last request emptied the pending lines: it created a commit, opened a
\* transaction or rolled back.
Emptied == Created(1) \/ last.req = "Begin" \/ RolledBack

\* C29: the pending lines hold each line once, in the order of first
\* insertion: a request that does not empty them only appends to them, and
\* inserting a line already present leaves them as they are; the message of a
\* commit is the pending lines at the time of the Commit, each once and in
\* that order, starting with the lines that were pending before the request.
C29_Message ==
    /\ NoDuplicates(lines)
    /\ \A k \in 1..Len(commits) : NoDuplicates(commits[k].message)
    /\ \A i \in 1..Len(lines) : OrderedSet_insert(lines, lines[i]) = lines
    /\ ~Emptied => IsPrefix(last.pre.ci.lines, lines)
    /\ CommitCreated =>
          /\ IsPrefix(last.pre.ci.lines, commits[Len(commits)].message)
          /\ \E ord \in DirOrders(last.pre.ci.wt.meta) :
                commits[Len(commits)].message
                  = execute(last.pre.ci, BeforeCommit(last.cmds), ord).s.lines

\* A batch of two edits of one note, which record the same line, has been
\* committed: the message is that one line.
C29_Witness ==
    /\ last.req = "Batch"
    /\ CommitCreated
    /\ Len(last.cmds) = 3
    /\ last.cmds[1].type = "EditNoteSetContent"
    /\ last.cmds[2].type = "EditNoteSetContent"
    /\ Len(commits[Len(commits)].message) = 1

(***************************************************************************)
(* Construction of the tree.                                               *)
(***************************************************************************)
\* In the store L the path of one note is a proper prefix of another's: a
\* leaf for the first, an interior segment for the second.
LeafAndDirectory(L) ==
    \E f, g \in DOMAIN L.id_to_notes :
        IsProperPrefix(L.id_to_notes[f].path, L.id_to_notes[g].path)

\* The tree holds every note of the store L as the leaf at its path.
HoldsAll(nodes, L) ==
    \A i \in DOMAIN L.id_to_notes :
        /\ L.id_to_notes[i].path \in DOMAIN nodes
        /\ nodes[L.id_to_notes[i].path].is_note
        /\ nodes[L.id_to_notes[i].path].id = i

\* C30: when a path is a leaf for one note and a proper prefix of the path of
\* another, from_iter returns none whatever the order in which the notes are
\* iterated: it returns no tree, and so none that lacks one of the notes.
C30_NoTreeOnConflict ==
    \A L \in Loads(wt.meta) : \A ordh \in Perms(IdSpace) :
        LeafAndDirectory(L) =>
            /\ from_iter(notes_in_order(L, ordh)) = {}
            /\ \A nodes \in from_iter(notes_in_order(L, ordh)) : HoldsAll(nodes, L)

(***************************************************************************)
(* The rolled-up last_updated of the tree.                                 *)
(***************************************************************************)
\* The last_updated of the notes of the store L whose path lies below p.
TimesBelow(L, p) ==
    {L.id_to_notes[i].last_updated :
        i \in {j \in DOMAIN L.id_to_notes : IsProperPrefix(p, L.id_to_notes[j].path)}}

\* The greatest element of a non-empty set of numbers.
Greatest(S) == CHOOSE m \in S : \A n \in S : n <= m

\* Every interior node of the tree carries the maximum of the last_updated of
\* the notes below it (none when no note is below it).
RolledUp(nodes, L) ==
    \A p \in DOMAIN nodes :
        ~nodes[p].is_note =>
            nodes[p].last_updated
              = IF TimesBelow(L, p) = {} THEN {} ELSE {Greatest(TimesBelow(L, p))}

VisitPath(v) == v.parent \o <<v.name>>

\* p comes before q in pre-order with the children in ascending order of
\* their names: p is an ancestor of q, or at the first segment where they
\* differ the one of p is the lesser.
RECURSIVE Before(_, _)
Before(p, q) ==
    IF p = <<>> THEN q # <<>>
    ELSE IF q = <<>> THEN FALSE
    ELSE IF Head(p) = Head(q) THEN Before(Tail(p), Tail(q))
    ELSE StrLess(Head(p), Head(q))

\* The directories of the tree, the root included.
Directories(nodes) == {p \in DOMAIN nodes : is_tree(nodes, p)}

\* The paths, relative to root, of the nodes below root that a walk reaches
\* when the visitor returns false on the paths in stop: those with no proper
\* ancestor in stop.
Reached(nodes, root, stop) ==
    {Rel(root, p) : p \in {q \in DOMAIN nodes :
        /\ IsProperPrefix(root, q)
        /\ \A k \in 1..(Len(q) - Len(root) - 1) : SubSeq(q, Len(root) + 1, Len(root) + k) \notin stop}}

\* The calls visits are a walk of the subtree at root with the visitor
\* returning false on stop: every reached node once, in pre-order, with its
\* level and its parent.
IsWalk(visits, nodes, root, stop) ==
    /\ {VisitPath(visits[i]) : i \in 1..Len(visits)} = Reached(nodes, root, stop)
    /\ \A i, j \in 1..Len(visits) :
          i < j => Before(VisitPath(visits[i]), VisitPath(visits[j]))
    /\ \A i \in 1..Len(visits) : visits[i].level = Len(visits[i].parent)

\* C32: walk calls the visitor on the nodes below the walked root in
\* pre-order, the children of a node in ascending order of their names, with
\* the depth and the parent path relative to the walked root; every node is
\* visited once when the visitor always returns true, and when it returns
\* false on a directory, nothing below that directory is visited and its
\* later siblings still are.
C32_Walk ==
    \A L \in Loads(wt.meta) : \A ordh \in HashOrders(L) :
        \A nodes \in from_iter(notes_in_order(L, ordh)) :
            \A root \in Directories(nodes) :
                \A stop \in SUBSET {Rel(root, d) : d \in {e \in Directories(nodes) : IsProperPrefix(root, e)}} :
                    IsWalk(walk(nodes, root, stop), nodes, root, stop)

\* A tree where the directory a holds the directory b, with a note in it,
\* and the note x after it: the walk that does not descend into a/b visits
\* a, a/b and a/x.
C32_Witness ==
    \E L \in Loads(wt.meta) : \E ordh \in HashOrders(L) :
        \E nodes \in from_iter(notes_in_order(L, ordh)) :
            /\ <<sa, sb, sx>> \in DOMAIN nodes
            /\ <<sa, sx>> \in DOMAIN nodes
            /\ [level |-> 1, parent |-> <<sa>>, name |-> sx]
                 \in Range(walk(nodes, <<>>, {<<sa, sb>>}))
            /\ <<sa, sb, sx>> \notin {VisitPath(v) : v \in Range(walk(nodes, <<>>, {<<sa, sb>>}))}

(***************************************************************************)
(* The working directory.                                                  *)
(***************************************************************************)
\* The last request was one to change the working directory.
Changing == last.req = "ChangeWorkingDirectory"

\* The directory change_working_dir computed for the last request: the one
\* taken, or the one refused.
Computed == IF last.err = Ok THEN working_dir ELSE last.err.path

\* The segments of the path given, and the directory they are applied to.
Segments == components(last.args.text)
Start == IF is_absolute(last.args.text) THEN <<>> ELSE last.pre.working_dir

\* The directory reached from dir by the first n segments of segs: ".."
\* drops the last component, if any; another segment is appended.
RECURSIVE Applied(_, _, _)
Applied(dir, segs, n) ==
    IF n = 0 THEN dir
    ELSE IF segs[n] = <<".", ".">>
         THEN SubSeq(Applied(dir, segs, n - 1), 1, Len(Applied(dir, segs, n - 1)) - 1)
         ELSE join(Applied(dir, segs, n - 1), segs[n])

\* C33: change_working_dir applies the segments of the path from left to
\* right, ".." moving to the parent and staying at the root, any other
\* segment being appended, an absolute path starting from the root; the
\* result has no ".." component, and a path of k ".." segments applied to a
\* directory of depth d gives its ancestor of depth max(d - k, 0).
C33_ChangeWorkingDir ==
    Changing =>
        /\ Computed = Applied(Start, Segments, Len(Segments))
        /\ \A i \in 1..Len(Computed) : Computed[i] # <<".", ".">>
        /\ (\A i \in 1..Len(Segments) : Segments[i] = <<".", ".">>) =>
              /\ IsPrefix(Computed, Start)
              /\ Len(Computed) = IF Len(Start) >= Len(Segments)
                                 THEN Len(Start) - Len(Segments) ELSE 0

\* From the directory a, of depth 1, the relative path of two ".." segments,
\* one more than the depth, has led to the root.
C33_Witness ==
    /\ Changing
    /\ last.pre.working_dir = <<sa>>
    /\ last.args.text = <<".", ".", "/", ".", ".">>
    /\ last.err = Ok
    /\ working_dir = <<>>

(***************************************************************************)
(* The two indexes of the store.                                           *)
(***************************************************************************)
\* In the store L, path_to_id maps the path of every record of id_to_notes
\* to its identifier, and every entry of path_to_id names a record at that
\* path.
IndexesAgree(L) ==
    /\ \A i \in DOMAIN L.id_to_notes :
          /\ L.id_to_notes[i].path \in DOMAIN L.path_to_id
          /\ L.path_to_id[L.id_to_notes[i].path] = i
    /\ \A p \in DOMAIN L.path_to_id :
          /\ L.path_to_id[p] \in DOMAIN L.id_to_notes
          /\ L.id_to_notes[L.path_to_id[p]].path = p

\* C34: whenever the store of the interpreter is loaded, its two indexes
\* agree, also after the MoveNote and RemoveNote primitives of the batches
\* executed since it was loaded.
C34_IndexesAgree == storage.loaded => IndexesAgree(storage)

(***************************************************************************)
(* The origin of the lines of a message.                                   *)
(***************************************************************************)
\* The interpreter before the last request, with no line pending.
PreCleared == [last.pre.ci EXCEPT !.lines = <<>>]

\* C35: the message of a commit holds only lines recorded by commands that
\* ran after the previous Commit primitive: outside a transaction, the
\* message of the commit a request creates is made of the lines its own
\* batch recorded, and of no line left by an earlier batch that created no
\* commit or failed.
C35_OwnLines ==
    (CommitCreated /\ last.pre.auto_commit) =>
        \E ord \in DirOrders(last.pre.ci.wt.meta) :
            commits[Len(commits)].message
              = execute(PreCleared, BeforeCommit(last.cmds), ord).s.lines


(***************************************************************************)
(* The cached store after reset().                                         *)
(***************************************************************************)
\* The cached store of the interpreter and the metadata files agree on the
\* virtual path of every note both of them hold.
CacheAsOnDisk ==
    \A id \in DOMAIN storage.id_to_notes \cap DOMAIN wt.meta :
        storage.id_to_notes[id].path = wt.meta[id].path

\* C36: after reset() following a failed batch, the cached store of the
\* interpreter holds no change of the rolled-back commands: the virtual path
\* it has for a note is the one of the restored metadata file, so a later
\* command records and persists that path and never a rolled-back destination.
C36_ResetCache ==
    (RolledBack /\ storage.loaded) => CacheAsOnDisk


(***************************************************************************)
(* Notes added inside an open transaction.                                 *)
(***************************************************************************)
\* The notes on disk before the last request that HEAD did not have then:
\* the notes added since the transaction was opened.
AddedInTransaction ==
    {id \in DOMAIN last.pre.ci.wt.meta :
        \/ last.pre.ci.commits = <<>>
        \/ id \notin DOMAIN HeadTree(last.pre).meta}

\* The last request was an edit, a move or a remove inside a transaction and
\* its path is the virtual path of a note added inside that transaction.
OnAddedNote ==
    /\ last.req \in {"Edit", "Move", "Remove"}
    /\ ~last.pre.auto_commit
    /\ \E id \in AddedInTransaction : last.pre.ci.wt.meta[id].path = last.args.path

\* C37: while a transaction is open, an edit, move or remove request on a note
\* that an earlier request of the transaction added resolves the note: the
\* interpreter does not answer that the note was not found.
C37_ResolvedInTransaction ==
    OnAddedNote => last.err.kind # "NoteNotFound"


(***************************************************************************)
(* The note a MoveNote moves.                                              *)
(***************************************************************************)
\* The MoveNote primitives of the batch cmds.
MoveNotes(cmds) == {i \in 1..Len(cmds) : cmds[i].type = "MoveNote"}

\* The last request was a move that succeeded and whose batch holds exactly
\* one MoveNote.
MovedOne ==
    /\ last.req = "Move"
    /\ last.err = Ok
    /\ Cardinality(MoveNotes(last.cmds)) = 1

\* The notes the one MoveNote of the batch resolved its source to.
MovedIds ==
    UNION {get_id(note_metadata_storage_mut(last.pre.ci, ord).storage,
                  last.cmds[CHOOSE i \in MoveNotes(last.cmds) : TRUE].source) :
           ord \in DirOrders(last.pre.ci.wt.meta)}

\* Both files of the note id exist and its content is the one before the
\* last request.
Intact(id) ==
    /\ id \in DOMAIN wt.md
    /\ id \in DOMAIN wt.meta
    /\ id \in DOMAIN last.pre.ci.wt.md
    /\ wt.md[id] = last.pre.ci.wt.md[id]

\* C38: after a MoveNote that succeeded, with or without force and also when
\* source and destination resolve to the same note, the content file and the
\* metadata file of the moved note exist and its content is unchanged.
C38_MoveKeepsNote ==
    MovedOne => \A id \in MovedIds : Intact(id)


(***************************************************************************)
(* The identifier and the timestamps of a note.                            *)
(***************************************************************************)
\* The primitives that edit, retag, move or run a note, and Commit.
Keeping == {"EditNoteContent", "EditNoteSetContent", "MoveNote", "RunSnippet", "Commit"}

\* The last request succeeded and its batch held only such primitives.
KeptAll ==
    /\ last.err = Ok
    /\ last.req \in {"Edit", "Move", "RunSnippet", "Commit", "Batch"}
    /\ \A i \in 1..Len(last.cmds) : last.cmds[i].type \in Keeping

\* The last request added the note whose metadata file is new.
AddedNote ==
    /\ last.err = Ok
    /\ last.req = "Add"
    /\ last.args.id \notin DOMAIN last.pre.ci.wt.meta
    /\ last.args.id \in DOMAIN wt.meta

\* The metadata file of id holds the id and the created of the file before
\* the last request, and a last_updated that is not earlier.
StampsKept(id) ==
    /\ wt.meta[id].id = last.pre.ci.wt.meta[id].id
    /\ wt.meta[id].created = last.pre.ci.wt.meta[id].created
    /\ wt.meta[id].last_updated >= last.pre.ci.wt.meta[id].last_updated

\* C39: edit, tag-change, move, run-snippet and commit commands leave the id
\* and created of every existing note as they were and never decrease its
\* last_updated; a note that was just added has last_updated equal to
\* created; and last_updated is never earlier than created.
C39_Stamps ==
    /\ \A id \in DOMAIN wt.meta : wt.meta[id].last_updated >= wt.meta[id].created
    /\ KeptAll => \A id \in DOMAIN wt.meta \cap DOMAIN last.pre.ci.wt.meta : StampsKept(id)
    /\ AddedNote => wt.meta[last.args.id].last_updated = wt.meta[last.args.id].created

\* An edit left a note with a later last_updated and the created it had.
C39_Witness ==
    /\ KeptAll
    /\ last.req = "Edit"
    /\ \E id \in DOMAIN wt.meta \cap DOMAIN last.pre.ci.wt.meta :
          /\ wt.meta[id].last_updated > last.pre.ci.wt.meta[id].last_updated
          /\ wt.meta[id].created = last.pre.ci.wt.meta[id].created


(***************************************************************************)
(* The paths of a glob expansion.                                          *)
(***************************************************************************)
\* The patterns of the move requests.
Patterns == {s \in MoveSources : contains_star(s)}

\* No path of the list is another path of the list, its ancestor or its
\* descendant.
Unrelated(paths) ==
    \A i, j \in 1..Len(paths) : i # j => ~IsPrefix(paths[i], paths[j])

\* No two primitives of the batch cmds have the same value in their field
\* named by Of.
Once(cmds, Of(_)) ==
    \A i, j \in 1..Len(cmds) : i # j => Of(cmds[i]) # Of(cmds[j])

SourceOf(cmd) == cmd.source
PathOf(cmd) == cmd.path

\* The trees the planner can build from the store of the App as a request
\* would load it.
PlannerTrees ==
    {planner_tree(App_note_metadata_storage(TheApp, ord), ordh) :
        ord \in DirOrders(wt.meta), ordh \in Perms(IdSpace)}

\* C40: the list of a glob expansion holds no path that is an ancestor or a
\* descendant of another one of the list, and the batch planned from it has
\* every note as the source of at most one MoveNote, or as the target of at
\* most one RemoveNote.
C40_GlobUnrelated ==
    \A tree \in PlannerTrees : \A pattern \in Patterns :
        /\ \A paths \in create_glob_paths(tree, <<>>, pattern) : Unrelated(paths)
        /\ \A d \in MoveDestinations, f \in BOOLEAN :
              Once(create_move_commands_tree(tree, <<>>, pattern, d, f), SourceOf)
        /\ \A r \in BOOLEAN :
              Once(create_remove_commands_tree(tree, <<>>, pattern, r), PathOf)

\* A move request by a pattern that matches a directory holding a note was
\* planned as two MoveNote primitives or more.
C40_Witness ==
    /\ last.req = "Move"
    /\ contains_star(last.args.path)
    /\ Cardinality(MoveNotes(last.cmds)) >= 2
    /\ \E i \in MoveNotes(last.cmds) : Len(last.cmds[i].source) >= 2

====
